---- MODULE Spec2Model ----
(***************************************************************************)
(* Cache-aside layer of manga-reader2: the manga, chapter and page use     *)
(* cases over the Postgres repositories (authoritative store) and the      *)
(* Redis cache repository.                                                 *)
(*                                                                         *)
(* Spec     : requests run one after another; one action is one whole use  *)
(*            case call, with the failures of the cache, the store and the *)
(*            analytics calls it makes drawn as inputs.                    *)
(* SpecRace : requests on one manga run concurrently, one action per       *)
(*            repository or cache call of GetByID and Update.              *)
(***************************************************************************)
EXTENDS Integers, Sequences, FiniteSets, TLC

(* ------------------------------ bounds --------------------------------- *)
\* ids handed out by the SERIAL columns of manga, chapters and pages
MaxMangaId == 1
MaxChapterId == 1
MaxPageId == 1
\* highest view score counted exactly in a ranking set
MaxViews == 1
\* concurrent GetByID requests of SpecRace
NumReaders == 2

MangaIds == 1..MaxMangaId
ChapterIds == 1..MaxChapterId
PageIds == 1..MaxPageId
\* the manga and the chapters present when a run on their children begins
ParentMangaIds == {1, 2}
ParentChapterIds == {1, 2}
Titles == {"a", "b"}
Numbers == {1, 2}
Paths == {"", "p"}
Limits == {1}
Offsets == {0, 1}
PopLimits == {1}
Periods == {"daily", "weekly", "monthly", "all_time"}
Families == {"manga", "mangaList", "popular", "chapter", "chapterList", "page", "pageList"}

VARIABLES
    family,        \* the use case exercised by the requests of this run
    mangaDB,       \* table manga:    id -> [id, title]
    mangaOrder,    \* manga ids by updated_at, latest first
    nextMangaId,   \* the manga id sequence
    chapterDB,     \* table chapters: id -> [id, manga_id, number]
    nextChapterId,
    pageDB,        \* table pages:    id -> [id, chapter_id, number]
    nextPageId,
    cache,         \* Redis strings:  key -> [val, ttl]
    views,         \* Redis ranking sets: <<kind, period>> -> (id -> score)
    last,          \* what the latest request did and returned
    pc,            \* SpecRace: position of each request
    loc,           \* SpecRace: locals of each request
    hist,          \* SpecRace, SpecViews: the order of the calls made so far
    jwtService,    \* SpecAuth: the JWTService built at startup
    userDB,        \* SpecAuth: table users: id -> [id, username, role, password]
    now,           \* SpecAuth: the clock
    held,          \* SpecAuth: the tokens the clients hold
    resp           \* SpecAuth: the outcome of the latest request

authVars == <<jwtService, userDB, now, held, resp>>
vars == <<family, mangaDB, mangaOrder, nextMangaId, chapterDB, nextChapterId,
          pageDB, nextPageId, cache, views, last, pc, loc, hist, authVars>>
storeVars == <<mangaDB, mangaOrder, nextMangaId, chapterDB, nextChapterId,
               pageDB, nextPageId>>
raceVars == <<pc, loc, hist>>

(* ----------------------------- helpers --------------------------------- *)
Put(f, k, v) == [x \in (DOMAIN f) \cup {k} |-> IF x = k THEN v ELSE f[x]]
Drop(f, k) == [x \in (DOMAIN f) \ {k} |-> f[x]]
DropAll(f, ks) == [x \in (DOMAIN f) \ ks |-> f[x]]
Empty == [x \in {} |-> 0]

RECURSIVE Without(_, _)
Without(s, x) ==
    IF s = <<>> THEN <<>>
    ELSE IF Head(s) = x THEN Without(Tail(s), x)
    ELSE <<Head(s)>> \o Without(Tail(s), x)

RECURSIVE SelectIds(_, _)
\* the ids of s that are in set keep, in the order of s
SelectIds(s, keep) ==
    IF s = <<>> THEN <<>>
    ELSE IF Head(s) \in keep THEN <<Head(s)>> \o SelectIds(Tail(s), keep)
    ELSE SelectIds(Tail(s), keep)

\* rows limit/offset of a result set (LIMIT n OFFSET m)
LimitOffset(s, limit, offset) ==
    SubSeq(s, offset + 1, IF offset + limit < Len(s) THEN offset + limit ELSE Len(s))

SeqsUpTo(S, n) == UNION {[1..k -> S] : k \in 0..n}

(* ------------------------------ errors --------------------------------- *)
NoVal == "none"
Ok(v) == [ok |-> TRUE, err |-> "", val |-> v]
Err(e) == [ok |-> FALSE, err |-> e, val |-> NoVal]
NotFoundError(kind) == Err(kind \o "_NOT_FOUND")
DatabaseError == Err("DATABASE_ERROR")
ValidationError == Err("VALIDATION_ERROR")

(* ------------------- the token service when unused --------------------- *)
NoService ==
    [accessSecret |-> "", refreshSecret |-> "",
     accessExpires |-> 0, refreshExpires |-> 0]
NoClaims == [UserID |-> 0, Username |-> "", Role |-> ""]
\* a string that is not a JWT
Garbage ==
    [alg |-> "", sig |-> "", UserID |-> 0, Username |-> "", Role |-> "",
     exp |-> 0, nbf |-> 0]
NoPair == [AccessToken |-> Garbage, RefreshToken |-> Garbage]
NoResp ==
    [op |-> "none", status |-> 0, code |-> "", passed |-> FALSE,
     invoked |-> FALSE, ctx |-> NoClaims, pair |-> NoPair,
     tok |-> Garbage, again |-> FALSE]
AuthIdle ==
    /\ jwtService = NoService
    /\ userDB = [x \in {} |-> 0]
    /\ now = 0
    /\ held = {}
    /\ resp = NoResp

(* ----------------------------- cache keys ------------------------------ *)
MangaKey(id) == "manga:" \o ToString(id)
ChapterKey(id) == "chapter:" \o ToString(id)
PageKey(id) == "page:" \o ToString(id)
\* faulty variant: limit and offset are not separated
MangaListKeyJoined(limit, offset) ==
    "manga:list:" \o ToString(limit) \o ToString(offset)

MangaListKey(limit, offset) ==
    "manga:list:" \o ToString(limit) \o ":" \o ToString(offset)
MangaChaptersKey(mangaID) == "manga:" \o ToString(mangaID) \o ":chapters"
ChapterPagesKey(chapterID) == "chapter:" \o ToString(chapterID) \o ":pages"
PopularKey(period, limit) ==
    "manga:popular:" \o period \o ":" \o ToString(limit)
MangaListPattern == "manga:list:*"

MangaListKeys == {MangaListKey(l, o) : l \in Limits, o \in Offsets}

\* time.Duration arguments of cacheRepo.Set, in minutes
ItemTTL == 30
MangaListTTL == 10
NestedListTTL == 15
\* faulty variant: a switch without its default leaves the zero Duration,
\* which Redis stores without expiry
PopularTTLUnset(period) == IF period = "daily" THEN 60 ELSE 0

PopularTTL(period) ==
    CASE period = "daily" -> 60
      [] period = "weekly" -> 240
      [] period = "monthly" -> 720
      [] OTHER -> 1440

(* --------------------------- JSON encoding ----------------------------- *)
MangaRecs == [id : MangaIds, title : Titles]
ChapterRecs == [id : ChapterIds, manga_id : ParentMangaIds, number : Numbers]
PageRecs == [id : PageIds, chapter_id : ParentChapterIds, number : Numbers]
StatRecs == [manga_id : MangaIds, title : Titles, views : 1..MaxViews]

MarshalManga(m) ==
    "{id:" \o ToString(m.id) \o ",title:" \o m.title \o "}"
MarshalChapter(c) ==
    "{id:" \o ToString(c.id) \o ",manga_id:" \o ToString(c.manga_id)
        \o ",number:" \o ToString(c.number) \o "}"
MarshalPage(p) ==
    "{id:" \o ToString(p.id) \o ",chapter_id:" \o ToString(p.chapter_id)
        \o ",number:" \o ToString(p.number) \o "}"
MarshalStat(s) ==
    "{manga_id:" \o ToString(s.manga_id) \o ",title:" \o s.title
        \o ",views:" \o ToString(s.views) \o "}"

RECURSIVE Join(_)
Join(texts) ==
    IF texts = <<>> THEN ""
    ELSE IF Len(texts) = 1 THEN texts[1]
    ELSE texts[1] \o "," \o Join(Tail(texts))

\* a nil slice is encoded as null, any other slice as an array
MarshalList(texts) ==
    IF texts = <<>> THEN "null" ELSE "[" \o Join(texts) \o "]"

MarshalMangaList(s) == MarshalList([i \in 1..Len(s) |-> MarshalManga(s[i])])
MarshalChapterList(s) == MarshalList([i \in 1..Len(s) |-> MarshalChapter(s[i])])
MarshalPageList(s) == MarshalList([i \in 1..Len(s) |-> MarshalPage(s[i])])
MarshalStatList(s) == MarshalList([i \in 1..Len(s) |-> MarshalStat(s[i])])

\* the encodings of the values of each cached type
MangaJSON == [v \in MangaRecs |-> MarshalManga(v)]
ChapterJSON == [v \in ChapterRecs |-> MarshalChapter(v)]
PageJSON == [v \in PageRecs |-> MarshalPage(v)]
MangaListJSON == [v \in SeqsUpTo(MangaRecs, MaxMangaId) |-> MarshalMangaList(v)]
ChapterListJSON ==
    [v \in SeqsUpTo(ChapterRecs, MaxChapterId) |-> MarshalChapterList(v)]
PageListJSON == [v \in SeqsUpTo(PageRecs, MaxPageId) |-> MarshalPageList(v)]
StatListJSON == [v \in SeqsUpTo(StatRecs, MaxMangaId) |-> MarshalStatList(v)]

\* faulty variant: a text that is no encoding is decoded to some value
DecodeAnything(text, json) ==
    [ok |-> TRUE, val |-> CHOOSE v \in DOMAIN json : TRUE]

\* json.Unmarshal: the value whose encoding is the text, an error if none
Decode(text, json) ==
    IF \E v \in DOMAIN json : json[v] = text
    THEN [ok |-> TRUE, val |-> CHOOSE v \in DOMAIN json : json[v] = text]
    ELSE [ok |-> FALSE, val |-> NoVal]

UnmarshalManga(text) == Decode(text, MangaJSON)
UnmarshalChapter(text) == Decode(text, ChapterJSON)
UnmarshalPage(text) == Decode(text, PageJSON)
UnmarshalMangaList(text) == Decode(text, MangaListJSON)
UnmarshalChapterList(text) == Decode(text, ChapterListJSON)
UnmarshalPageList(text) == Decode(text, PageListJSON)
UnmarshalStatList(text) == Decode(text, StatListJSON)

(* ------------------- Redis cache repository (strings) ------------------ *)
\* faulty variant: every GET answers redis.Nil
GetAlwaysNil(c, key, fail) == [err |-> TRUE, val |-> ""]

\* GET: the value, or the error redis.Nil when the key is absent
CacheGet(c, key, fail) ==
    IF fail \/ key \notin DOMAIN c
    THEN [err |-> TRUE, val |-> ""]
    ELSE [err |-> FALSE, val |-> c[key].val]

\* faulty variants: a SET that writes nothing; a SET that keeps an existing value
SetDropped(c, key, val, ttl, fail) == c
SetIfAbsent(c, key, val, ttl, fail) ==
    IF fail \/ key \in DOMAIN c THEN c ELSE Put(c, key, [val |-> val, ttl |-> ttl])

\* SET key value EX ttl
CacheSet(c, key, val, ttl, fail) ==
    IF fail THEN c ELSE Put(c, key, [val |-> val, ttl |-> ttl])

\* faulty variant: a DEL that leaves the key in place
DeleteForgotten(c, key, fail) == c

\* DEL key: removes exactly the key named, no pattern matching
CacheDelete(c, key, fail) ==
    IF fail THEN c ELSE Drop(c, key)

(* --------------------- analytics repository (Redis) -------------------- *)
Score(z, id) == IF id \in DOMAIN z THEN z[id] ELSE 0

\* faulty variant: only the daily ranking set is incremented
RecordViewDailyOnly(v, kind, id, fail) ==
    IF fail THEN v
    ELSE [k \in DOMAIN v |->
            IF k = <<kind, "daily">> THEN Put(v[k], id, Score(v[k], id) + 1)
            ELSE v[k]]

\* ZINCRBY 1 in the ranking set of every period of the kind
RecordView(v, kind, id, fail) ==
    IF fail THEN v
    ELSE [k \in DOMAIN v |->
            IF k[1] = kind THEN Put(v[k], id, Score(v[k], id) + 1) ELSE v[k]]

\* faulty variant: the view of a manga is not recorded
RecordMangaViewSkipped(v, mangaID, fail) == v

RecordMangaView(v, mangaID, fail) == RecordView(v, "manga", mangaID, fail)
RecordChapterView(v, chapterID, fail) == RecordView(v, "chapter", chapterID, fail)
RecordPageView(v, pageID, fail) == RecordView(v, "page", pageID, fail)

GetChapterViews(v, chapterID, fail) ==
    IF fail THEN 0 ELSE Score(v[<<"chapter", "all_time">>], chapterID)

\* the view scores are counted exactly up to MaxViews
CanView(kind, id, fail) ==
    fail \/ \A p \in Periods : Score(views[<<kind, p>>], id) < MaxViews

RECURSIVE Ranked(_, _)
\* members of z by score, highest first (equal scores: highest member first)
Ranked(z, ids) ==
    IF ids = {} THEN <<>>
    ELSE LET top == CHOOSE i \in ids :
                      \A j \in ids : z[j] < z[i] \/ (z[j] = z[i] /\ j <= i)
         IN <<top>> \o Ranked(z, ids \ {top})

RECURSIVE JoinTitles(_, _, _)
\* the rows of the ranked ids whose manga still exists
JoinTitles(ranked, z, db) ==
    IF ranked = <<>> THEN <<>>
    ELSE IF Head(ranked) \in DOMAIN db
    THEN <<[manga_id |-> Head(ranked), title |-> db[Head(ranked)].title,
            views |-> z[Head(ranked)]]>> \o JoinTitles(Tail(ranked), z, db)
    ELSE JoinTitles(Tail(ranked), z, db)

GetTopManga(v, db, period, limit, fail) ==
    IF fail THEN DatabaseError
    ELSE LET z == v[<<"manga", period>>]
             ranked == Ranked(z, DOMAIN z)
         IN Ok(JoinTitles(LimitOffset(ranked, limit, 0), z, db))

(* ------------------------ Postgres repositories ------------------------ *)
MangaRepoGetByID(db, id, fail) ==
    IF fail THEN DatabaseError
    ELSE IF id \in DOMAIN db THEN Ok(db[id]) ELSE NotFoundError("MANGA")

\* title ILIKE '%t%' over one-letter titles
TitleMatches(title, t) == t = "" \/ title = t

RECURSIVE Rows(_, _)
Rows(ids, db) ==
    IF ids = <<>> THEN <<>> ELSE <<db[Head(ids)]>> \o Rows(Tail(ids), db)

\* every row of the model carries this status
RowStatus == "ongoing"

\* status = $n
StatusMatches(status, s) == s = "" \/ status = s

\* SELECT ... FROM manga [WHERE ...] ORDER BY updated_at DESC [LIMIT OFFSET];
\* with genres the statement puts GROUP BY before WHERE and the query fails
MangaRepoList(db, order, filter, fail) ==
    IF fail \/ Len(filter.Genres) > 0 THEN DatabaseError
    ELSE LET match == {i \in DOMAIN db :
                          /\ TitleMatches(db[i].title, filter.Title)
                          /\ StatusMatches(RowStatus, filter.Status)}
             rows == Rows(SelectIds(order, match), db)
         IN Ok(IF filter.Limit > 0
               THEN LimitOffset(rows, filter.Limit, filter.Offset)
               ELSE rows)

ChapterRepoGetByID(db, id, fail) ==
    IF fail THEN DatabaseError
    ELSE IF id \in DOMAIN db THEN Ok(db[id]) ELSE NotFoundError("CHAPTER")

PageRepoGetByID(db, id, fail) ==
    IF fail THEN DatabaseError
    ELSE IF id \in DOMAIN db THEN Ok(db[id]) ELSE NotFoundError("PAGE")

RECURSIVE ByNumber(_)
\* ORDER BY number (unique within one parent)
ByNumber(rows) ==
    IF rows = {} THEN <<>>
    ELSE LET lo == CHOOSE r \in rows : \A q \in rows : r.number <= q.number
         IN <<lo>> \o ByNumber(rows \ {lo})

ChapterRepoListByManga(db, mangaID, fail) ==
    IF fail THEN DatabaseError
    ELSE Ok(ByNumber({db[i] : i \in {j \in DOMAIN db : db[j].manga_id = mangaID}}))

PageRepoListByChapter(db, chapterID, fail) ==
    IF fail THEN DatabaseError
    ELSE Ok(ByNumber({db[i] : i \in {j \in DOMAIN db : db[j].chapter_id = chapterID}}))

\* UNIQUE (manga_id, number) and UNIQUE (chapter_id, number)
ChapterNumberTaken(db, id, mangaID, number) ==
    \E j \in DOMAIN db : j # id /\ db[j].manga_id = mangaID /\ db[j].number = number
PageNumberTaken(db, id, chapterID, number) ==
    \E j \in DOMAIN db : j # id /\ db[j].chapter_id = chapterID /\ db[j].number = number

\* ON DELETE CASCADE of chapters.manga_id and pages.chapter_id
ChaptersOf(db, mangaID) == {j \in DOMAIN db : db[j].manga_id = mangaID}
PagesOf(db, chapterIDs) == {j \in DOMAIN db : db[j].chapter_id \in chapterIDs}

(* ----------------------- shared use case logic ------------------------- *)
\* faulty variant: the cached text is never used
NeverHit(got, dec) == FALSE

\* err == nil && cachedData != "" and the cached text decodes
CacheHit(got, dec) == ~got.err /\ got.val # "" /\ dec.ok

\* faulty variant: the Set is not skipped when the loader failed
WriteBackAlways(c, key, loaded, text, ttl, fail) == CacheSet(c, key, text, ttl, fail)

\* after the load: return on a loader error, otherwise cache the encoding
WriteBack(c, key, loaded, text, ttl, fail) ==
    IF loaded THEN CacheSet(c, key, text, ttl, fail) ELSE c

\* faulty variant: a failed cache call is returned to the caller
Surface(res, failed) == IF failed THEN Err("CACHE_ERROR") ELSE res

\* a failed cache call is logged and the request goes on with its result
Swallow(res, failed) == res

InvalidateMangaListCache(c, fail) == CacheDelete(c, MangaListPattern, fail)
InvalidateChapterListCache(c, mangaID, fail) ==
    CacheDelete(c, MangaChaptersKey(mangaID), fail)
\* faulty variant: the page key of that number is deleted, not the list key
InvalidatePageKey(c, chapterID, fail) == CacheDelete(c, PageKey(chapterID), fail)

InvalidatePageListCache(c, chapterID, fail) ==
    CacheDelete(c, ChapterPagesKey(chapterID), fail)

\* the record of a request: what it called and what it returned
NoCall ==
    [op |-> "none", id |-> 0, key |-> "", had |-> FALSE, hit |-> FALSE,
     loader |-> FALSE, repo |-> {}, sets |-> {}, dels |-> {},
     res |-> Ok(NoVal), cfail |-> FALSE, dbfail |-> FALSE, commit |-> FALSE,
     anfail |-> FALSE]

ReadCall(op, id, key, hit, loader, repo, sets, res, cfail, dbfail) ==
    [NoCall EXCEPT !.op = op, !.id = id, !.key = key,
                   !.had = key \in DOMAIN cache, !.hit = hit,
                   !.loader = loader, !.repo = repo, !.sets = sets,
                   !.res = res, !.cfail = cfail, !.dbfail = dbfail]

\* faulty variant: a failed analytics call is returned to the caller
ReturnViewError(res, failed) == IF failed THEN Err("ANALYTICS_ERROR") ELSE res

\* a failed analytics call is logged and the read goes on with its result
LogViewError(res, failed) == res

\* a read that called the analytics repository
ViewedCall(anfail, op, id, key, hit, loader, repo, sets, res, cfail, dbfail) ==
    [ReadCall(op, id, key, hit, loader, repo, sets, LogViewError(res, anfail),
              cfail, dbfail) EXCEPT !.anfail = anfail]

WriteCall(op, id, repo, dels, res, cfail, dbfail, commit) ==
    [NoCall EXCEPT !.op = op, !.id = id, !.repo = repo, !.dels = dels,
                   !.res = res, !.cfail = cfail, !.dbfail = dbfail,
                   !.commit = commit]

(* --------------------------- manga use case ---------------------------- *)
MangaGetByID(id, getFail, setFail, dbFail, anFail) ==
    LET key == MangaKey(id)
        got == CacheGet(cache, key, getFail)
        dec == UnmarshalManga(got.val)
        r == MangaRepoGetByID(mangaDB, id, dbFail)
    IN /\ family \in {"manga", "popular", "leaderboard"}
       /\ getFail => key \in DOMAIN cache
       /\ IF CacheHit(got, dec)
          THEN /\ ~setFail /\ ~dbFail
               /\ CanView("manga", id, anFail)
               /\ views' = RecordMangaView(views, id, anFail)
               /\ cache' = cache
               /\ last' = ViewedCall(anFail, "MangaGetByID", id, key, TRUE, FALSE, {}, {},
                                   Ok(dec.val), FALSE, FALSE)
          ELSE IF ~r.ok
          THEN /\ ~setFail /\ ~anFail
               /\ views' = views
               /\ cache' = WriteBack(cache, key, FALSE, "", ItemTTL, FALSE)
               /\ last' = ReadCall("MangaGetByID", id, key, FALSE, TRUE,
                                   {"mangaRepo.GetByID"}, {} , r, getFail, dbFail)
          ELSE /\ CanView("manga", id, anFail)
               /\ views' = RecordMangaView(views, id, anFail)
               /\ cache' = WriteBack(cache, key, TRUE, MarshalManga(r.val),
                                     ItemTTL, setFail)
               /\ last' = ViewedCall(anFail, "MangaGetByID", id, key, FALSE, TRUE,
                                   {"mangaRepo.GetByID"}, {key},
                                   Swallow(r, getFail \/ setFail),
                                   getFail \/ setFail, FALSE)
       /\ UNCHANGED <<family, authVars, storeVars, raceVars>>

\* faulty variant: only the title decides whether the list is cached
TitleOnly(filter) == filter.Title = ""

\* filter.Title == "" && filter.Status == "" && len(filter.Genres) == 0
Unfiltered(filter) ==
    filter.Title = "" /\ filter.Status = "" /\ Len(filter.Genres) = 0

MangaList(filter, getFail, setFail, dbFail) ==
    LET unfiltered == Unfiltered(filter)
        key == MangaListKey(filter.Limit, filter.Offset)
        got == CacheGet(cache, key, getFail)
        dec == UnmarshalMangaList(got.val)
        r == MangaRepoList(mangaDB, mangaOrder, filter, dbFail)
    IN /\ family = "mangaList"
       /\ getFail => unfiltered /\ key \in DOMAIN cache
       /\ IF unfiltered /\ CacheHit(got, dec)
          THEN /\ ~setFail /\ ~dbFail
               /\ cache' = cache
               /\ last' = ReadCall("MangaList", 0, key, TRUE, FALSE, {}, {},
                                   Ok(dec.val), FALSE, FALSE)
          ELSE IF ~r.ok
          THEN /\ ~setFail
               /\ cache' = WriteBack(cache, key, FALSE, "", MangaListTTL, FALSE)
               /\ last' = ReadCall("MangaList", 0, IF unfiltered THEN key ELSE "",
                                   FALSE, TRUE, {"mangaRepo.List"}, {}, r,
                                   getFail, TRUE)
          ELSE IF unfiltered
          THEN /\ cache' = WriteBack(cache, key, TRUE, MarshalMangaList(r.val),
                                     MangaListTTL, setFail)
               /\ last' = ReadCall("MangaList", 0, key, FALSE, TRUE,
                                   {"mangaRepo.List"}, {key},
                                   Swallow(r, getFail \/ setFail),
                                   getFail \/ setFail, FALSE)
          ELSE /\ ~setFail
               /\ cache' = cache
               /\ last' = ReadCall("MangaList", 0, "", FALSE, TRUE,
                                   {"mangaRepo.List"}, {}, r, FALSE, FALSE)
       /\ UNCHANGED <<family, authVars, storeVars, views, raceVars>>

MangaCreate(title, dbFailAt, delFail) ==
    LET id == nextMangaId
        rec == [id |-> id, title |-> title]
        db2 == Put(mangaDB, id, rec)
        r == MangaRepoGetByID(db2, id, dbFailAt = 2)
    IN /\ family \in {"manga", "mangaList"}
       /\ IF title = ""
          THEN /\ dbFailAt = 0 /\ ~delFail
               /\ last' = WriteCall("MangaCreate", 0, {}, {}, ValidationError,
                                    FALSE, FALSE, FALSE)
               /\ UNCHANGED <<mangaDB, mangaOrder, nextMangaId, cache>>
          ELSE IF dbFailAt = 1
          THEN /\ ~delFail
               /\ last' = WriteCall("MangaCreate", 0, {"mangaRepo.Create"}, {},
                                    DatabaseError, FALSE, TRUE, FALSE)
               /\ UNCHANGED <<mangaDB, mangaOrder, nextMangaId, cache>>
          ELSE /\ nextMangaId <= MaxMangaId
               /\ mangaDB' = db2
               /\ mangaOrder' = <<id>> \o mangaOrder
               /\ nextMangaId' = nextMangaId + 1
               /\ IF ~r.ok
                  THEN /\ ~delFail
                       /\ cache' = cache
                       /\ last' = WriteCall("MangaCreate", id,
                                     {"mangaRepo.Create", "mangaRepo.GetByID"},
                                     {}, r, FALSE, TRUE, TRUE)
                  ELSE /\ cache' = InvalidateMangaListCache(cache, delFail)
                       /\ last' = WriteCall("MangaCreate", id,
                                     {"mangaRepo.Create", "mangaRepo.GetByID"},
                                     {MangaListPattern}, Swallow(r, delFail),
                                     delFail, FALSE, TRUE)
       /\ UNCHANGED <<family, authVars, chapterDB, nextChapterId, pageDB, nextPageId,
                      views, raceVars>>

MangaUpdate(id, title, dbFailAt, delFails) ==
    LET r1 == MangaRepoGetByID(mangaDB, id, dbFailAt = 1)
        db2 == Put(mangaDB, id, [id |-> id, title |-> title])
        r3 == MangaRepoGetByID(db2, id, dbFailAt = 3)
    IN /\ family \in {"manga", "mangaList"}
       /\ IF ~r1.ok
          THEN /\ dbFailAt \in {0, 1} /\ delFails = {}
               /\ last' = WriteCall("MangaUpdate", id, {"mangaRepo.GetByID"}, {},
                                    r1, FALSE, dbFailAt = 1, FALSE)
               /\ UNCHANGED <<mangaDB, mangaOrder, cache>>
          ELSE IF title = ""
          THEN /\ dbFailAt = 0 /\ delFails = {}
               /\ last' = WriteCall("MangaUpdate", id, {"mangaRepo.GetByID"}, {},
                                    ValidationError, FALSE, FALSE, FALSE)
               /\ UNCHANGED <<mangaDB, mangaOrder, cache>>
          ELSE IF dbFailAt = 2
          THEN /\ delFails = {}
               /\ last' = WriteCall("MangaUpdate", id,
                                    {"mangaRepo.GetByID", "mangaRepo.Update"}, {},
                                    DatabaseError, FALSE, TRUE, FALSE)
               /\ UNCHANGED <<mangaDB, mangaOrder, cache>>
          ELSE /\ mangaDB' = db2
               /\ mangaOrder' = <<id>> \o Without(mangaOrder, id)
               /\ IF ~r3.ok
                  THEN /\ delFails = {}
                       /\ cache' = cache
                       /\ last' = WriteCall("MangaUpdate", id,
                                    {"mangaRepo.GetByID", "mangaRepo.Update"}, {},
                                    r3, FALSE, TRUE, TRUE)
                  ELSE /\ cache' = InvalidateMangaListCache(
                                     CacheDelete(cache, MangaKey(id), 1 \in delFails),
                                     2 \in delFails)
                       /\ last' = WriteCall("MangaUpdate", id,
                                    {"mangaRepo.GetByID", "mangaRepo.Update"},
                                    {MangaKey(id), MangaListPattern},
                                    Swallow(r3, delFails # {}),
                                    delFails # {}, FALSE, TRUE)
       /\ UNCHANGED <<family, authVars, nextMangaId, chapterDB, nextChapterId, pageDB,
                      nextPageId, views, raceVars>>

MangaDelete(id, dbFailAt, delFails) ==
    LET r1 == MangaRepoGetByID(mangaDB, id, dbFailAt = 1)
        gone == ChaptersOf(chapterDB, id)
    IN /\ family \in {"manga", "mangaList", "cascade"}
       /\ IF ~r1.ok
          THEN /\ dbFailAt \in {0, 1} /\ delFails = {}
               /\ last' = WriteCall("MangaDelete", id, {"mangaRepo.GetByID"}, {},
                                    r1, FALSE, dbFailAt = 1, FALSE)
               /\ UNCHANGED <<mangaDB, mangaOrder, chapterDB, pageDB, cache>>
          ELSE IF dbFailAt = 2
          THEN /\ delFails = {}
               /\ last' = WriteCall("MangaDelete", id,
                                    {"mangaRepo.GetByID", "mangaRepo.Delete"}, {},
                                    DatabaseError, FALSE, TRUE, FALSE)
               /\ UNCHANGED <<mangaDB, mangaOrder, chapterDB, pageDB, cache>>
          ELSE /\ dbFailAt = 0
               /\ mangaDB' = Drop(mangaDB, id)
               /\ mangaOrder' = Without(mangaOrder, id)
               /\ chapterDB' = DropAll(chapterDB, gone)
               /\ pageDB' = DropAll(pageDB, PagesOf(pageDB, gone))
               /\ cache' = InvalidateMangaListCache(
                             CacheDelete(cache, MangaKey(id), 1 \in delFails),
                             2 \in delFails)
               /\ last' = WriteCall("MangaDelete", id,
                                    {"mangaRepo.GetByID", "mangaRepo.Delete"},
                                    {MangaKey(id), MangaListPattern},
                                    Swallow(Ok(NoVal), delFails # {}),
                                    delFails # {}, FALSE, TRUE)
       /\ UNCHANGED <<family, authVars, nextMangaId, nextChapterId, nextPageId, views,
                      raceVars>>

GetPopular(period, limit, getFail, setFail, anFail) ==
    LET key == PopularKey(period, limit)
        got == CacheGet(cache, key, getFail)
        dec == UnmarshalStatList(got.val)
        r == GetTopManga(views, mangaDB, period, limit, anFail)
    IN /\ family \in {"popular", "leaderboard"}
       /\ getFail => key \in DOMAIN cache
       /\ IF CacheHit(got, dec)
          THEN /\ ~setFail /\ ~anFail
               /\ cache' = cache
               /\ last' = ReadCall("GetPopular", 0, key, TRUE, FALSE, {}, {},
                                   Ok(dec.val), FALSE, FALSE)
          ELSE IF ~r.ok
          THEN /\ ~setFail
               /\ cache' = WriteBack(cache, key, FALSE, "", PopularTTL(period), FALSE)
               /\ last' = ReadCall("GetPopular", 0, key, FALSE, TRUE, {}, {}, r,
                                   getFail, FALSE)
          ELSE /\ cache' = WriteBack(cache, key, TRUE, MarshalStatList(r.val),
                                     PopularTTL(period), setFail)
               /\ last' = ReadCall("GetPopular", 0, key, FALSE, TRUE, {}, {key},
                                   Swallow(r, getFail \/ setFail),
                                   getFail \/ setFail, FALSE)
       /\ UNCHANGED <<family, authVars, storeVars, views, raceVars>>

\* mangaUseCase.GetChapters: the manga is looked up, then an empty slice is
\* returned (the body is a placeholder)
MangaGetChapters(mangaID, dbFail) ==
    LET r1 == MangaRepoGetByID(mangaDB, mangaID, dbFail)
    IN /\ family = "chapterList"
       /\ last' = ReadCall("MangaGetChapters", mangaID, "", FALSE, FALSE,
                           {"mangaRepo.GetByID"}, {},
                           IF r1.ok THEN Ok(<<>>) ELSE r1, FALSE, dbFail)
       /\ UNCHANGED <<family, authVars, storeVars, cache, views, raceVars>>

(* -------------------------- chapter use case --------------------------- *)
ChapterCreate(mangaID, number, title, dbFailAt, delFail) ==
    LET id == nextChapterId
        r1 == MangaRepoGetByID(mangaDB, mangaID, dbFailAt = 1)
        rec == [id |-> id, manga_id |-> mangaID, number |-> number]
        taken == ChapterNumberTaken(chapterDB, id, mangaID, number)
        db2 == Put(chapterDB, id, rec)
        r3 == ChapterRepoGetByID(db2, id, dbFailAt = 3)
        called == {"mangaRepo.GetByID", "chapterRepo.Create"}
    IN /\ family \in {"chapter", "chapterList"}
       /\ IF title = "" \/ mangaID <= 0
          THEN /\ dbFailAt = 0 /\ ~delFail
               /\ last' = WriteCall("ChapterCreate", 0, {}, {}, ValidationError,
                                    FALSE, FALSE, FALSE)
               /\ UNCHANGED <<chapterDB, nextChapterId, cache>>
          ELSE IF ~r1.ok
          THEN /\ dbFailAt \in {0, 1} /\ ~delFail
               /\ last' = WriteCall("ChapterCreate", 0, {"mangaRepo.GetByID"}, {},
                                    r1, FALSE, dbFailAt = 1, FALSE)
               /\ UNCHANGED <<chapterDB, nextChapterId, cache>>
          ELSE IF dbFailAt = 2 \/ taken
          THEN /\ dbFailAt \in {0, 2} /\ ~delFail
               /\ last' = WriteCall("ChapterCreate", 0, called, {}, DatabaseError,
                                    FALSE, TRUE, FALSE)
               /\ UNCHANGED <<chapterDB, nextChapterId, cache>>
          ELSE /\ nextChapterId <= MaxChapterId
               /\ chapterDB' = db2
               /\ nextChapterId' = nextChapterId + 1
               /\ IF ~r3.ok
                  THEN /\ ~delFail
                       /\ cache' = cache
                       /\ last' = WriteCall("ChapterCreate", id,
                                     called \cup {"chapterRepo.GetByID"}, {}, r3,
                                     FALSE, TRUE, TRUE)
                  ELSE /\ cache' = InvalidateChapterListCache(cache, mangaID, delFail)
                       /\ last' = WriteCall("ChapterCreate", id,
                                     called \cup {"chapterRepo.GetByID"},
                                     {MangaChaptersKey(mangaID)},
                                     Swallow(r3, delFail), delFail, FALSE, TRUE)
       /\ UNCHANGED <<family, authVars, mangaDB, mangaOrder, nextMangaId, pageDB,
                      nextPageId, views, raceVars>>

\* faulty variant: the view is recorded, then the count is read
RecordThenCount(v, id, vFail, anFail) ==
    LET w == RecordChapterView(v, id, anFail)
    IN [views |-> GetChapterViews(w, id, vFail), v |-> w]

\* GetChapterViews, then RecordChapterView: the count read and the ranking
\* sets after the call
CountThenRecord(v, id, vFail, anFail) ==
    [views |-> GetChapterViews(v, id, vFail),
     v |-> RecordChapterView(v, id, anFail)]

ChapterGetByID(id, getFail, setFail, dbFail, vFail, anFail) ==
    LET key == ChapterKey(id)
        got == CacheGet(cache, key, getFail)
        dec == UnmarshalChapter(got.val)
        r == ChapterRepoGetByID(chapterDB, id, dbFail)
        counted == CountThenRecord(views, id, vFail, anFail)
        n == counted.views
    IN /\ family \in {"chapter", "cascade"}
       /\ getFail => key \in DOMAIN cache
       /\ vFail => GetChapterViews(views, id, FALSE) > 0
       /\ IF CacheHit(got, dec)
          THEN /\ ~setFail /\ ~dbFail
               /\ CanView("chapter", id, anFail)
               /\ views' = counted.v
               /\ cache' = cache
               /\ last' = ViewedCall(vFail \/ anFail, "ChapterGetByID", id, key, TRUE, FALSE, {}, {},
                                   Ok([chapter |-> dec.val, views |-> n]),
                                   FALSE, FALSE)
          ELSE IF ~r.ok
          THEN /\ ~setFail /\ ~anFail /\ ~vFail
               /\ views' = views
               /\ cache' = WriteBack(cache, key, FALSE, "", ItemTTL, FALSE)
               /\ last' = ReadCall("ChapterGetByID", id, key, FALSE, TRUE,
                                   {"chapterRepo.GetByID"}, {}, r, getFail, dbFail)
          ELSE /\ CanView("chapter", id, anFail)
               /\ views' = counted.v
               /\ cache' = WriteBack(cache, key, TRUE, MarshalChapter(r.val),
                                     ItemTTL, setFail)
               /\ last' = ViewedCall(vFail \/ anFail, "ChapterGetByID", id, key, FALSE, TRUE,
                                   {"chapterRepo.GetByID"}, {key},
                                   Swallow(Ok([chapter |-> r.val, views |-> n]),
                                           getFail \/ setFail),
                                   getFail \/ setFail, FALSE)
       /\ UNCHANGED <<family, authVars, storeVars, raceVars>>

ChapterListByManga(mangaID, getFail, setFail, dbFailAt) ==
    LET r1 == MangaRepoGetByID(mangaDB, mangaID, dbFailAt = 1)
        key == MangaChaptersKey(mangaID)
        got == CacheGet(cache, key, getFail)
        dec == UnmarshalChapterList(got.val)
        r == ChapterRepoListByManga(chapterDB, mangaID, dbFailAt = 2)
    IN /\ family = "chapterList"
       /\ getFail => key \in DOMAIN cache
       /\ IF ~r1.ok
          THEN /\ dbFailAt \in {0, 1} /\ ~getFail /\ ~setFail
               /\ cache' = cache
               /\ last' = ReadCall("ChapterListByManga", mangaID, key, FALSE, FALSE,
                                   {"mangaRepo.GetByID"}, {}, r1, FALSE,
                                   dbFailAt = 1)
          ELSE IF CacheHit(got, dec)
          THEN /\ dbFailAt = 0 /\ ~setFail
               /\ cache' = cache
               /\ last' = ReadCall("ChapterListByManga", mangaID, key, TRUE, FALSE,
                                   {"mangaRepo.GetByID"}, {}, Ok(dec.val),
                                   FALSE, FALSE)
          ELSE IF ~r.ok
          THEN /\ ~setFail
               /\ cache' = WriteBack(cache, key, FALSE, "", NestedListTTL, FALSE)
               /\ last' = ReadCall("ChapterListByManga", mangaID, key, FALSE, TRUE,
                                   {"mangaRepo.GetByID", "chapterRepo.ListByManga"},
                                   {}, r, getFail, TRUE)
          ELSE /\ cache' = WriteBack(cache, key, TRUE, MarshalChapterList(r.val),
                                     NestedListTTL, setFail)
               /\ last' = ReadCall("ChapterListByManga", mangaID, key, FALSE, TRUE,
                                   {"mangaRepo.GetByID", "chapterRepo.ListByManga"},
                                   {key}, Swallow(r, getFail \/ setFail),
                                   getFail \/ setFail, FALSE)
       /\ UNCHANGED <<family, authVars, storeVars, views, raceVars>>

ChapterUpdate(id, number, title, dbFailAt, delFails) ==
    LET r1 == ChapterRepoGetByID(chapterDB, id, dbFailAt = 1)
        existing == r1.val
        taken == ChapterNumberTaken(chapterDB, id, existing.manga_id, number)
        db2 == Put(chapterDB, id, [existing EXCEPT !.number = number])
        r3 == ChapterRepoGetByID(db2, id, dbFailAt = 3)
        called == {"chapterRepo.GetByID", "chapterRepo.Update"}
    IN /\ family \in {"chapter", "chapterList"}
       /\ IF ~r1.ok
          THEN /\ dbFailAt \in {0, 1} /\ delFails = {}
               /\ last' = WriteCall("ChapterUpdate", id, {"chapterRepo.GetByID"},
                                    {}, r1, FALSE, dbFailAt = 1, FALSE)
               /\ UNCHANGED <<chapterDB, cache>>
          ELSE IF title = ""
          THEN /\ dbFailAt = 0 /\ delFails = {}
               /\ last' = WriteCall("ChapterUpdate", id, {"chapterRepo.GetByID"},
                                    {}, ValidationError, FALSE, FALSE, FALSE)
               /\ UNCHANGED <<chapterDB, cache>>
          ELSE IF dbFailAt = 2 \/ taken
          THEN /\ dbFailAt \in {0, 2} /\ delFails = {}
               /\ last' = WriteCall("ChapterUpdate", id, called, {}, DatabaseError,
                                    FALSE, TRUE, FALSE)
               /\ UNCHANGED <<chapterDB, cache>>
          ELSE /\ chapterDB' = db2
               /\ IF ~r3.ok
                  THEN /\ delFails = {}
                       /\ cache' = cache
                       /\ last' = WriteCall("ChapterUpdate", id, called, {}, r3,
                                            FALSE, TRUE, TRUE)
                  ELSE /\ cache' = InvalidateChapterListCache(
                                     CacheDelete(cache, ChapterKey(id), 1 \in delFails),
                                     existing.manga_id, 2 \in delFails)
                       /\ last' = WriteCall("ChapterUpdate", id, called,
                                    {ChapterKey(id), MangaChaptersKey(existing.manga_id)},
                                    Swallow(r3, delFails # {}), delFails # {},
                                    FALSE, TRUE)
       /\ UNCHANGED <<family, authVars, mangaDB, mangaOrder, nextMangaId, nextChapterId,
                      pageDB, nextPageId, views, raceVars>>

ChapterDelete(id, dbFailAt, delFails) ==
    LET r1 == ChapterRepoGetByID(chapterDB, id, dbFailAt = 1)
        chapter == r1.val
        called == {"chapterRepo.GetByID", "chapterRepo.Delete"}
    IN /\ family \in {"chapter", "chapterList", "cascade"}
       /\ IF ~r1.ok
          THEN /\ dbFailAt \in {0, 1} /\ delFails = {}
               /\ last' = WriteCall("ChapterDelete", id, {"chapterRepo.GetByID"},
                                    {}, r1, FALSE, dbFailAt = 1, FALSE)
               /\ UNCHANGED <<chapterDB, pageDB, cache>>
          ELSE IF dbFailAt = 2
          THEN /\ delFails = {}
               /\ last' = WriteCall("ChapterDelete", id, called, {}, DatabaseError,
                                    FALSE, TRUE, FALSE)
               /\ UNCHANGED <<chapterDB, pageDB, cache>>
          ELSE /\ dbFailAt = 0
               /\ chapterDB' = Drop(chapterDB, id)
               /\ pageDB' = DropAll(pageDB, PagesOf(pageDB, {id}))
               /\ cache' = InvalidateChapterListCache(
                             CacheDelete(cache, ChapterKey(id), 1 \in delFails),
                             chapter.manga_id, 2 \in delFails)
               /\ last' = WriteCall("ChapterDelete", id, called,
                                    {ChapterKey(id), MangaChaptersKey(chapter.manga_id)},
                                    Swallow(Ok(NoVal), delFails # {}),
                                    delFails # {}, FALSE, TRUE)
       /\ UNCHANGED <<family, authVars, mangaDB, mangaOrder, nextMangaId, nextChapterId,
                      nextPageId, views, raceVars>>

(* ---------------------------- page use case ---------------------------- *)
PageCreate(chapterID, number, path, dbFailAt, delFail) ==
    LET id == nextPageId
        r1 == ChapterRepoGetByID(chapterDB, chapterID, dbFailAt = 1)
        rec == [id |-> id, chapter_id |-> chapterID, number |-> number]
        taken == PageNumberTaken(pageDB, id, chapterID, number)
        db2 == Put(pageDB, id, rec)
        r3 == PageRepoGetByID(db2, id, dbFailAt = 3)
        called == {"chapterRepo.GetByID", "pageRepo.Create"}
    IN /\ family \in {"page", "pageList"}
       /\ IF chapterID <= 0 \/ path = ""
          THEN /\ dbFailAt = 0 /\ ~delFail
               /\ last' = WriteCall("PageCreate", 0, {}, {}, ValidationError,
                                    FALSE, FALSE, FALSE)
               /\ UNCHANGED <<pageDB, nextPageId, cache>>
          ELSE IF ~r1.ok
          THEN /\ dbFailAt \in {0, 1} /\ ~delFail
               /\ last' = WriteCall("PageCreate", 0, {"chapterRepo.GetByID"}, {},
                                    r1, FALSE, dbFailAt = 1, FALSE)
               /\ UNCHANGED <<pageDB, nextPageId, cache>>
          ELSE IF dbFailAt = 2 \/ taken
          THEN /\ dbFailAt \in {0, 2} /\ ~delFail
               /\ last' = WriteCall("PageCreate", 0, called, {}, DatabaseError,
                                    FALSE, TRUE, FALSE)
               /\ UNCHANGED <<pageDB, nextPageId, cache>>
          ELSE /\ nextPageId <= MaxPageId
               /\ pageDB' = db2
               /\ nextPageId' = nextPageId + 1
               /\ IF ~r3.ok
                  THEN /\ ~delFail
                       /\ cache' = cache
                       /\ last' = WriteCall("PageCreate", id,
                                     called \cup {"pageRepo.GetByID"}, {}, r3,
                                     FALSE, TRUE, TRUE)
                  ELSE /\ cache' = InvalidatePageListCache(cache, chapterID, delFail)
                       /\ last' = WriteCall("PageCreate", id,
                                     called \cup {"pageRepo.GetByID"},
                                     {ChapterPagesKey(chapterID)},
                                     Swallow(r3, delFail), delFail, FALSE, TRUE)
       /\ UNCHANGED <<family, authVars, mangaDB, mangaOrder, nextMangaId, chapterDB,
                      nextChapterId, views, raceVars>>

PageGetByID(id, getFail, setFail, dbFailAt, anFail) ==
    LET key == PageKey(id)
        got == CacheGet(cache, key, getFail)
        dec == UnmarshalPage(got.val)
        r == PageRepoGetByID(pageDB, id, dbFailAt = 1)
        page == IF CacheHit(got, dec) THEN dec.val ELSE r.val
        rc == ChapterRepoGetByID(chapterDB, page.chapter_id, dbFailAt = 2)
    IN /\ family \in {"page", "cascade"}
       /\ getFail => key \in DOMAIN cache
       /\ IF CacheHit(got, dec)
          THEN /\ ~setFail /\ dbFailAt \in {0, 2}
               /\ rc.ok \/ ~anFail
               /\ rc.ok => CanView("page", id, anFail)
               /\ views' = IF rc.ok THEN RecordPageView(views, id, anFail) ELSE views
               /\ cache' = cache
               /\ last' = ViewedCall(anFail, "PageGetByID", id, key, TRUE, FALSE,
                                   {"chapterRepo.GetByID"}, {}, Ok(dec.val),
                                   FALSE, dbFailAt = 2)
          ELSE IF ~r.ok
          THEN /\ ~setFail /\ ~anFail /\ dbFailAt \in {0, 1}
               /\ views' = views
               /\ cache' = WriteBack(cache, key, FALSE, "", ItemTTL, FALSE)
               /\ last' = ReadCall("PageGetByID", id, key, FALSE, TRUE,
                                   {"pageRepo.GetByID"}, {}, r, getFail,
                                   dbFailAt = 1)
          ELSE /\ dbFailAt \in {0, 2}
               /\ rc.ok \/ ~anFail
               /\ rc.ok => CanView("page", id, anFail)
               /\ views' = IF rc.ok THEN RecordPageView(views, id, anFail) ELSE views
               /\ cache' = WriteBack(cache, key, TRUE, MarshalPage(r.val),
                                     ItemTTL, setFail)
               /\ last' = ViewedCall(anFail, "PageGetByID", id, key, FALSE, TRUE,
                                   {"pageRepo.GetByID", "chapterRepo.GetByID"},
                                   {key}, Swallow(r, getFail \/ setFail),
                                   getFail \/ setFail, dbFailAt = 2)
       /\ UNCHANGED <<family, authVars, storeVars, raceVars>>

PageListByChapter(chapterID, getFail, setFail, dbFailAt) ==
    LET r1 == ChapterRepoGetByID(chapterDB, chapterID, dbFailAt = 1)
        key == ChapterPagesKey(chapterID)
        got == CacheGet(cache, key, getFail)
        dec == UnmarshalPageList(got.val)
        r == PageRepoListByChapter(pageDB, chapterID, dbFailAt = 2)
    IN /\ family = "pageList"
       /\ getFail => key \in DOMAIN cache
       /\ IF ~r1.ok
          THEN /\ dbFailAt \in {0, 1} /\ ~getFail /\ ~setFail
               /\ cache' = cache
               /\ last' = ReadCall("PageListByChapter", chapterID, key, FALSE,
                                   FALSE, {"chapterRepo.GetByID"}, {}, r1, FALSE,
                                   dbFailAt = 1)
          ELSE IF CacheHit(got, dec)
          THEN /\ dbFailAt = 0 /\ ~setFail
               /\ cache' = cache
               /\ last' = ReadCall("PageListByChapter", chapterID, key, TRUE,
                                   FALSE, {"chapterRepo.GetByID"}, {}, Ok(dec.val),
                                   FALSE, FALSE)
          ELSE IF ~r.ok
          THEN /\ ~setFail
               /\ cache' = WriteBack(cache, key, FALSE, "", NestedListTTL, FALSE)
               /\ last' = ReadCall("PageListByChapter", chapterID, key, FALSE, TRUE,
                                   {"chapterRepo.GetByID", "pageRepo.ListByChapter"},
                                   {}, r, getFail, TRUE)
          ELSE /\ cache' = WriteBack(cache, key, TRUE, MarshalPageList(r.val),
                                     NestedListTTL, setFail)
               /\ last' = ReadCall("PageListByChapter", chapterID, key, FALSE, TRUE,
                                   {"chapterRepo.GetByID", "pageRepo.ListByChapter"},
                                   {key}, Swallow(r, getFail \/ setFail),
                                   getFail \/ setFail, FALSE)
       /\ UNCHANGED <<family, authVars, storeVars, views, raceVars>>

PageUpdate(id, chapterID, number, path, dbFailAt, delFails) ==
    LET r1 == PageRepoGetByID(pageDB, id, dbFailAt = 1)
        existingPage == r1.val
        r2 == ChapterRepoGetByID(chapterDB, chapterID, dbFailAt = 2)
        taken == PageNumberTaken(pageDB, id, chapterID, number)
        db2 == Put(pageDB, id, [id |-> id, chapter_id |-> chapterID,
                                number |-> number])
        r4 == PageRepoGetByID(db2, id, dbFailAt = 4)
        moved == existingPage.chapter_id # chapterID
        c1 == CacheDelete(cache, PageKey(id), 1 \in delFails)
        c2 == IF moved
              THEN InvalidatePageListCache(c1, existingPage.chapter_id, 2 \in delFails)
              ELSE c1
        c3 == InvalidatePageListCache(c2, chapterID, 3 \in delFails)
        keys == {PageKey(id), ChapterPagesKey(existingPage.chapter_id),
                 ChapterPagesKey(chapterID)}
        called == {"pageRepo.GetByID", "chapterRepo.GetByID", "pageRepo.Update"}
    IN /\ family \in {"page", "pageList"}
       /\ IF ~r1.ok
          THEN /\ dbFailAt \in {0, 1} /\ delFails = {}
               /\ last' = WriteCall("PageUpdate", id, {"pageRepo.GetByID"}, {},
                                    r1, FALSE, dbFailAt = 1, FALSE)
               /\ UNCHANGED <<pageDB, cache>>
          ELSE IF chapterID <= 0 \/ path = ""
          THEN /\ dbFailAt = 0 /\ delFails = {}
               /\ last' = WriteCall("PageUpdate", id, {"pageRepo.GetByID"}, {},
                                    ValidationError, FALSE, FALSE, FALSE)
               /\ UNCHANGED <<pageDB, cache>>
          ELSE IF ~r2.ok
          THEN /\ dbFailAt \in {0, 2} /\ delFails = {}
               /\ last' = WriteCall("PageUpdate", id,
                                    {"pageRepo.GetByID", "chapterRepo.GetByID"}, {},
                                    r2, FALSE, dbFailAt = 2, FALSE)
               /\ UNCHANGED <<pageDB, cache>>
          ELSE IF dbFailAt = 3 \/ taken
          THEN /\ dbFailAt \in {0, 3} /\ delFails = {}
               /\ last' = WriteCall("PageUpdate", id, called, {}, DatabaseError,
                                    FALSE, TRUE, FALSE)
               /\ UNCHANGED <<pageDB, cache>>
          ELSE /\ pageDB' = db2
               /\ IF ~r4.ok
                  THEN /\ delFails = {}
                       /\ cache' = cache
                       /\ last' = WriteCall("PageUpdate", id, called, {}, r4,
                                            FALSE, TRUE, TRUE)
                  ELSE /\ moved \/ 2 \notin delFails
                       /\ cache' = c3
                       /\ last' = WriteCall("PageUpdate", id, called,
                                    keys, Swallow(r4, delFails # {}),
                                    delFails # {}, FALSE, TRUE)
       /\ UNCHANGED <<family, authVars, mangaDB, mangaOrder, nextMangaId, chapterDB,
                      nextChapterId, nextPageId, views, raceVars>>

PageDelete(id, dbFailAt, delFails) ==
    LET r1 == PageRepoGetByID(pageDB, id, dbFailAt = 1)
        page == r1.val
        called == {"pageRepo.GetByID", "pageRepo.Delete"}
    IN /\ family \in {"page", "pageList"}
       /\ IF ~r1.ok
          THEN /\ dbFailAt \in {0, 1} /\ delFails = {}
               /\ last' = WriteCall("PageDelete", id, {"pageRepo.GetByID"}, {},
                                    r1, FALSE, dbFailAt = 1, FALSE)
               /\ UNCHANGED <<pageDB, cache>>
          ELSE IF dbFailAt = 2
          THEN /\ delFails = {}
               /\ last' = WriteCall("PageDelete", id, called, {}, DatabaseError,
                                    FALSE, TRUE, FALSE)
               /\ UNCHANGED <<pageDB, cache>>
          ELSE /\ dbFailAt = 0
               /\ pageDB' = Drop(pageDB, id)
               /\ cache' = InvalidatePageListCache(
                             CacheDelete(cache, PageKey(id), 1 \in delFails),
                             page.chapter_id, 2 \in delFails)
               /\ last' = WriteCall("PageDelete", id, called,
                                    {PageKey(id), ChapterPagesKey(page.chapter_id)},
                                    Swallow(Ok(NoVal), delFails # {}),
                                    delFails # {}, FALSE, TRUE)
       /\ UNCHANGED <<family, authVars, mangaDB, mangaOrder, nextMangaId, chapterDB,
                      nextChapterId, nextPageId, views, raceVars>>

(* ------------------------------- Redis --------------------------------- *)
\* a key set with a positive time to live expires
Expire(key) ==
    /\ key \in DOMAIN cache
    /\ cache[key].ttl > 0
    /\ cache' = Drop(cache, key)
    /\ last' = [NoCall EXCEPT !.op = "Expire", !.key = key]
    /\ UNCHANGED <<family, authVars, storeVars, views, raceVars>>

(* --------------------------- specification ----------------------------- *)
Kinds == {"manga", "chapter", "page"}
NoViews == [k \in Kinds \X Periods |-> Empty]

\* the tables a run starts from: catalog rows written by earlier runs
AllManga == [i \in ParentMangaIds |-> [id |-> i, title |-> "a"]]
OneManga == [i \in {1} |-> [id |-> i, title |-> "a"]]
AllChapters ==
    [i \in ParentChapterIds |-> [id |-> i, manga_id |-> 1, number |-> i]]

Init ==
    /\ family \in Families
    /\ mangaDB = CASE family \in {"manga", "mangaList"} -> Empty
                    [] family = "popular" -> OneManga
                    [] OTHER -> AllManga
    /\ mangaOrder = CASE family \in {"manga", "mangaList"} -> <<>>
                       [] family = "popular" -> <<1>>
                       [] OTHER -> <<2, 1>>
    /\ nextMangaId = IF family \in {"manga", "mangaList"} THEN 1 ELSE 3
    /\ chapterDB = IF family \in {"page", "pageList"} THEN AllChapters ELSE Empty
    /\ nextChapterId = IF family \in {"page", "pageList"} THEN 3 ELSE 1
    /\ pageDB = Empty
    /\ nextPageId = 1
    /\ cache = Empty
    /\ views = NoViews
    /\ last = NoCall
    /\ pc = <<>>
    /\ loc = <<>>
    /\ hist = <<>>
    /\ AuthIdle

Statuses == {"", "ongoing", "completed"}
GenreLists == {<<>>, <<"g">>}
Filters ==
    [Title : {"", "a"}, Status : Statuses, Genres : GenreLists,
     Limit : Limits, Offset : Offsets]

Next ==
    \/ \E id \in MangaIds, getFail, setFail, dbFail, anFail \in BOOLEAN :
          MangaGetByID(id, getFail, setFail, dbFail, anFail)
    \/ \E filter \in Filters, getFail, setFail, dbFail \in BOOLEAN :
          MangaList(filter, getFail, setFail, dbFail)
    \/ \E title \in Titles \cup {""}, dbFailAt \in 0..2, delFail \in BOOLEAN :
          MangaCreate(title, dbFailAt, delFail)
    \/ \E id \in MangaIds, title \in Titles \cup {""}, dbFailAt \in 0..3,
          delFails \in SUBSET {1, 2} :
          MangaUpdate(id, title, dbFailAt, delFails)
    \/ \E id \in MangaIds, dbFailAt \in 0..2, delFails \in SUBSET {1, 2} :
          MangaDelete(id, dbFailAt, delFails)
    \/ \E period \in Periods, limit \in PopLimits,
          getFail, setFail, anFail \in BOOLEAN :
          GetPopular(period, limit, getFail, setFail, anFail)
    \/ \E mangaID \in 0..3, number \in Numbers, title \in {"", "a"},
          dbFailAt \in 0..3, delFail \in BOOLEAN :
          ChapterCreate(mangaID, number, title, dbFailAt, delFail)
    \/ \E mangaID \in 1..3, dbFail \in BOOLEAN : MangaGetChapters(mangaID, dbFail)
    \/ \E id \in ChapterIds, getFail, setFail, dbFail, vFail, anFail \in BOOLEAN :
          ChapterGetByID(id, getFail, setFail, dbFail, vFail, anFail)
    \/ \E mangaID \in 1..3, getFail, setFail \in BOOLEAN,
          dbFailAt \in 0..2 :
          ChapterListByManga(mangaID, getFail, setFail, dbFailAt)
    \/ \E id \in ChapterIds, number \in Numbers, title \in {"", "a"},
          dbFailAt \in 0..3, delFails \in SUBSET {1, 2} :
          ChapterUpdate(id, number, title, dbFailAt, delFails)
    \/ \E id \in ChapterIds, dbFailAt \in 0..2, delFails \in SUBSET {1, 2} :
          ChapterDelete(id, dbFailAt, delFails)
    \/ \E chapterID \in 0..3, number \in Numbers, path \in Paths,
          dbFailAt \in 0..3, delFail \in BOOLEAN :
          PageCreate(chapterID, number, path, dbFailAt, delFail)
    \/ \E id \in PageIds, getFail, setFail, anFail \in BOOLEAN, dbFailAt \in 0..2 :
          PageGetByID(id, getFail, setFail, dbFailAt, anFail)
    \/ \E chapterID \in 1..3, getFail, setFail \in BOOLEAN, dbFailAt \in 0..2 :
          PageListByChapter(chapterID, getFail, setFail, dbFailAt)
    \/ \E id \in PageIds, chapterID \in 0..3, number \in Numbers, path \in Paths,
          dbFailAt \in 0..4, delFails \in SUBSET {1, 2, 3} :
          PageUpdate(id, chapterID, number, path, dbFailAt, delFails)
    \/ \E id \in PageIds, dbFailAt \in 0..2, delFails \in SUBSET {1, 2} :
          PageDelete(id, dbFailAt, delFails)
    \/ \E key \in DOMAIN cache : Expire(key)

Spec == Init /\ [][Next]_vars

(* ------------------- concurrent requests on one manga ------------------ *)
\* requests 1..NumReaders run GetByID(RaceId), one more runs Update(RaceId)
Readers == 1..NumReaders
Writer == NumReaders + 1
\* the manga the concurrent requests address
RaceId == MaxMangaId
RaceKey == MangaKey(RaceId)
OldManga == [id |-> RaceId, title |-> "a"]
NewManga == [id |-> RaceId, title |-> "b"]

NoLocals == [res |-> NoVal, missed |-> FALSE, loads |-> 0, sets |-> 0]

Goto(p, label) == pc' = [pc EXCEPT ![p] = label]
Event(ev, p) == hist' = Append(hist, [ev |-> ev, p |-> p])

\* GetByID: cacheRepo.Get and the hit test
RaceGet(r) ==
    LET got == CacheGet(cache, RaceKey, FALSE)
        dec == UnmarshalManga(got.val)
    IN /\ family = "race" /\ pc[r] = "get"
       /\ IF CacheHit(got, dec)
          THEN /\ loc' = [loc EXCEPT ![r].res = dec.val]
               /\ Goto(r, "view")
          ELSE /\ loc' = [loc EXCEPT ![r].missed = TRUE]
               /\ Goto(r, "load")
       /\ UNCHANGED <<family, authVars, storeVars, cache, views, last, hist>>

\* GetByID: mangaRepo.GetByID after a miss
RaceLoad(r) ==
    LET res == MangaRepoGetByID(mangaDB, RaceId, FALSE)
    IN /\ family = "race" /\ pc[r] = "load"
       /\ loc' = [loc EXCEPT ![r].res = res.val, ![r].loads = @ + 1]
       /\ Event("load", r)
       /\ Goto(r, "view")
       /\ UNCHANGED <<family, authVars, storeVars, cache, views, last>>

\* GetByID: analyticsRepo.RecordMangaView
RaceView(r) ==
    /\ family = "race" /\ pc[r] = "view"
    /\ views' = RecordMangaView(views, RaceId, FALSE)
    /\ Goto(r, IF loc[r].missed THEN "set" ELSE "done")
    /\ UNCHANGED <<family, authVars, storeVars, cache, last, loc, hist>>

\* GetByID: cacheRepo.Set of the record loaded, then return
RaceSet(r) ==
    /\ family = "race" /\ pc[r] = "set"
    /\ cache' = WriteBack(cache, RaceKey, TRUE, MarshalManga(loc[r].res),
                          ItemTTL, FALSE)
    /\ loc' = [loc EXCEPT ![r].sets = @ + 1]
    /\ Event("set", r)
    /\ Goto(r, "done")
    /\ UNCHANGED <<family, authVars, storeVars, views, last>>

\* Update: mangaRepo.GetByID, the existence check
RaceCheck ==
    /\ family = "race" /\ pc[Writer] = "check"
    /\ MangaRepoGetByID(mangaDB, RaceId, FALSE).ok
    /\ Goto(Writer, "update")
    /\ UNCHANGED <<family, authVars, storeVars, cache, views, last, loc, hist>>

\* Update: mangaRepo.Update commits the new row
RaceUpdate ==
    /\ family = "race" /\ pc[Writer] = "update"
    /\ mangaDB' = Put(mangaDB, RaceId, NewManga)
    /\ mangaOrder' = <<RaceId>> \o Without(mangaOrder, RaceId)
    /\ Event("commit", Writer)
    /\ Goto(Writer, "reload")
    /\ UNCHANGED <<family, authVars, nextMangaId, chapterDB, nextChapterId, pageDB,
                   nextPageId, cache, views, last, loc>>

\* Update: mangaRepo.GetByID of the updated row
RaceReload ==
    /\ family = "race" /\ pc[Writer] = "reload"
    /\ loc' = [loc EXCEPT ![Writer].res =
                              MangaRepoGetByID(mangaDB, RaceId, FALSE).val]
    /\ Goto(Writer, "del")
    /\ UNCHANGED <<family, authVars, storeVars, cache, views, last, hist>>

\* Update: cacheRepo.Delete of the item key
RaceDelete ==
    /\ family = "race" /\ pc[Writer] = "del"
    /\ cache' = CacheDelete(cache, RaceKey, FALSE)
    /\ Event("del", Writer)
    /\ Goto(Writer, "dellist")
    /\ UNCHANGED <<family, authVars, storeVars, views, last, loc>>

\* Update: invalidateMangaListCache, then return
RaceDeleteList ==
    /\ family = "race" /\ pc[Writer] = "dellist"
    /\ cache' = InvalidateMangaListCache(cache, FALSE)
    /\ Goto(Writer, "done")
    /\ UNCHANGED <<family, authVars, storeVars, views, last, loc, hist>>

InitRace ==
    /\ family = "race"
    /\ mangaDB = [i \in {RaceId} |-> OldManga]
    /\ mangaOrder = <<RaceId>>
    /\ nextMangaId = RaceId + 1
    /\ chapterDB = Empty
    /\ nextChapterId = 1
    /\ pageDB = Empty
    /\ nextPageId = 1
    /\ cache = Empty
    /\ views = NoViews
    /\ last = NoCall
    /\ pc = [p \in Readers \cup {Writer} |-> IF p = Writer THEN "check" ELSE "get"]
    /\ loc = [p \in Readers \cup {Writer} |-> NoLocals]
    /\ hist = <<>>
    /\ AuthIdle

NextRace ==
    \/ \E r \in Readers : RaceGet(r)
    \/ \E r \in Readers : RaceLoad(r)
    \/ \E r \in Readers : RaceView(r)
    \/ \E r \in Readers : RaceSet(r)
    \/ RaceCheck
    \/ RaceUpdate
    \/ RaceReload
    \/ RaceDelete
    \/ RaceDeleteList

SpecRace == InitRace /\ [][NextRace]_vars

(* ========================= properties of Spec ========================== *)
MangaWrites == {"MangaCreate", "MangaUpdate", "MangaDelete"}
ChapterWrites == {"ChapterCreate", "ChapterUpdate", "ChapterDelete"}
PageWrites == {"PageCreate", "PageUpdate", "PageDelete"}
ItemWrites == {"MangaUpdate", "MangaDelete", "ChapterUpdate", "ChapterDelete",
               "PageUpdate", "PageDelete"}
ItemReads == {"MangaGetByID", "ChapterGetByID", "PageGetByID"}
NestedLists == {"ChapterListByManga", "PageListByChapter"}
CachedReads == ItemReads \cup NestedLists \cup {"MangaList", "GetPopular"}

KindOf(op) ==
    CASE op \in {"MangaGetByID", "MangaCreate", "MangaUpdate", "MangaDelete"} -> "manga"
      [] op \in {"ChapterGetByID", "ChapterCreate", "ChapterUpdate", "ChapterDelete"}
           -> "chapter"
      [] OTHER -> "page"

ItemKey(kind, id) ==
    CASE kind = "manga" -> MangaKey(id)
      [] kind = "chapter" -> ChapterKey(id)
      [] OTHER -> PageKey(id)

GetByIDOf(kind) ==
    CASE kind = "manga" -> "MangaGetByID"
      [] kind = "chapter" -> "ChapterGetByID"
      [] OTHER -> "PageGetByID"

LoaderOf(kind) ==
    CASE kind = "manga" -> "mangaRepo.GetByID"
      [] kind = "chapter" -> "chapterRepo.GetByID"
      [] OTHER -> "pageRepo.GetByID"

\* what the store answers to GetByID now
StoreGetByID(kind, id) ==
    CASE kind = "manga" -> MangaRepoGetByID(mangaDB, id, FALSE)
      [] kind = "chapter" -> ChapterRepoGetByID(chapterDB, id, FALSE)
      [] OTHER -> PageRepoGetByID(pageDB, id, FALSE)

\* the entity a request returned (a chapter comes with its view count)
Returned(l) ==
    IF l.op = "ChapterGetByID" /\ l.res.ok THEN Ok(l.res.val.chapter) ELSE l.res

\* the value a cached text stands for, by the read that cached it
Cached(op, text) ==
    CASE op = "MangaGetByID" -> UnmarshalManga(text)
      [] op = "ChapterGetByID" -> UnmarshalChapter(text)
      [] op = "PageGetByID" -> UnmarshalPage(text)
      [] op = "MangaList" -> UnmarshalMangaList(text)
      [] op = "ChapterListByManga" -> UnmarshalChapterList(text)
      [] op = "PageListByChapter" -> UnmarshalPageList(text)
      [] OTHER -> UnmarshalStatList(text)

\* the latest request was a cached read that found its key in the cache and
\* whose cache calls all succeeded
ReadOfCachedKey == last.op \in CachedReads /\ last.had /\ ~last.cfail

\* C1: after a successful manga Create, Update or Delete no key
\* "manga:list:<limit>:<offset>" remains in the cache, and the next unfiltered
\* List calls mangaRepo.List instead of returning the list cached before.
MangaListsInvalidated ==
    [][/\ (last'.op \in MangaWrites /\ last'.res.ok)
            => \A k \in MangaListKeys : k \notin DOMAIN cache'
       /\ (last.op \in MangaWrites /\ last.res.ok /\ last'.op = "MangaList"
                /\ last'.key # "")
            => "mangaRepo.List" \in last'.repo]_vars

\* C2: when the cache calls succeed, a successful Update or Delete of the
\* manga, chapter or page i leaves its item key absent, and a GetByID(i) that
\* follows calls the repository's GetByID and returns what the store holds
\* (the updated record, or NotFound after a delete).
ItemInvalidated ==
    [][/\ (last'.op \in ItemWrites /\ last'.res.ok /\ ~last'.cfail)
            => ItemKey(KindOf(last'.op), last'.id) \notin DOMAIN cache'
       /\ (/\ last.op \in ItemWrites /\ last.res.ok /\ ~last.cfail
           /\ last'.op = GetByIDOf(KindOf(last.op)) /\ last'.id = last.id)
            => /\ LoaderOf(KindOf(last.op)) \in last'.repo
               /\ ~last'.dbfail
                    => Returned(last') = StoreGetByID(KindOf(last.op), last.id)]_vars

\* a chapter was updated with its cache calls succeeding; its key is gone
ItemInvalidatedWitness ==
    /\ last.op = "ChapterUpdate" /\ last.res.ok /\ ~last.cfail
    /\ ChapterKey(last.id) \notin DOMAIN cache
    /\ last.res.val = chapterDB[last.id]

ParentLookupFailed ==
    /\ last.op \in NestedLists
    /\ \/ last.dbfail
       \/ last.op = "ChapterListByManga" /\ last.id \notin DOMAIN mangaDB
       \/ last.op = "PageListByChapter" /\ last.id \notin DOMAIN chapterDB

ParentLookups(op) ==
    CASE op \in {"PageGetByID", "PageListByChapter"} -> {"chapterRepo.GetByID"}
      [] op = "ChapterListByManga" -> {"mangaRepo.GetByID"}
      [] OTHER -> {}

LoadFailureLeavesCache ==
    [][(last'.op \in ItemReads /\ ~last'.had /\ ~last'.res.ok)
          => /\ cache' = cache
             /\ last'.sets = {}
             /\ last'.res = IF last'.dbfail THEN DatabaseError
                            ELSE StoreGetByID(KindOf(last'.op), last'.id)]_vars

\* a page that is not in the store was asked for on a cold cache
LoadFailureLeavesCacheWitness ==
    /\ last.op = "PageGetByID" /\ ~last.had
    /\ last.res = NotFoundError("PAGE")
    /\ PageKey(last.id) \notin DOMAIN cache

\* the latest request returned what the store holds: the outcome of the
\* request when it runs on an empty cache whose calls succeed
AnsweredFromStore ==
    CASE last.op \in ItemReads ->
           IF last.res.ok
           THEN Returned(last) = StoreGetByID(KindOf(last.op), last.id)
           ELSE \/ last.dbfail /\ last.res = DatabaseError
                \/ ~last.dbfail /\ last.res = StoreGetByID(KindOf(last.op), last.id)
      [] last.op = "MangaList" ->
           IF last.res.ok
           THEN \E limit \in Limits, offset \in Offsets :
                   /\ last.key = MangaListKey(limit, offset)
                   /\ last.res = MangaRepoList(mangaDB, mangaOrder,
                                   [Title |-> "", Status |-> "",
                                    Genres |-> <<>>, Limit |-> limit,
                                    Offset |-> offset], FALSE)
           ELSE last.dbfail /\ last.res = DatabaseError
      [] last.op = "ChapterListByManga" ->
           IF last.res.ok
           THEN last.res = ChapterRepoListByManga(chapterDB, last.id, FALSE)
           ELSE \/ last.dbfail /\ last.res = DatabaseError
                \/ ~last.dbfail /\ last.res = MangaRepoGetByID(mangaDB, last.id, FALSE)
      [] last.op = "PageListByChapter" ->
           IF last.res.ok
           THEN last.res = PageRepoListByChapter(pageDB, last.id, FALSE)
           ELSE \/ last.dbfail /\ last.res = DatabaseError
                \/ ~last.dbfail /\ last.res = ChapterRepoGetByID(chapterDB, last.id, FALSE)
      [] last.op = "GetPopular" ->
           IF last.res.ok
           THEN \E period \in Periods, limit \in PopLimits :
                   /\ last.key = PopularKey(period, limit)
                   /\ last.res = GetTopManga(views, mangaDB, period, limit, FALSE)
           ELSE last.res = DatabaseError
      [] last.op \in {"MangaDelete", "ChapterDelete", "PageDelete"} ->
           /\ last.res = Ok(NoVal)
           /\ ~StoreGetByID(KindOf(last.op), last.id).ok
      [] last.op \in MangaWrites \cup ChapterWrites \cup PageWrites ->
           /\ last.res.ok
           /\ last.res = StoreGetByID(KindOf(last.op), last.id)
      [] OTHER -> TRUE

\* C6: whichever cache Get, Set or Delete calls of a read or write fail, the
\* request returns what it returns on an empty healthy cache, the outcome
\* of the store: a failed Get is a miss, and no cache error is returned.
CacheFailuresTransparent == last.cfail => AnsweredFromStore

\* the Get of a cached page failed and the page came from the store
CacheFailuresTransparentWitness ==
    /\ last.op = "PageGetByID" /\ last.cfail /\ last.had
    /\ last.res.ok /\ last.res.val = pageDB[last.id]

ChapterParent(db, id) == IF id \in DOMAIN db THEN {db[id].manga_id} ELSE {}
PageParent(db, id) == IF id \in DOMAIN db THEN {db[id].chapter_id} ELSE {}

ItemKeys ==
    {MangaKey(i) : i \in MangaIds} \cup {ChapterKey(i) : i \in ChapterIds}
        \cup {PageKey(i) : i \in PageIds}
NestedListKeys ==
    {MangaChaptersKey(i) : i \in ParentMangaIds}
        \cup {ChapterPagesKey(i) : i \in ParentChapterIds}

\* the time to live of each kind of key, in minutes
TimeToLive(k) ==
    CASE k \in ItemKeys -> {30}
      [] k \in MangaListKeys -> {10}
      [] k \in NestedListKeys -> {15}
      [] \E l \in PopLimits : k = PopularKey("daily", l) -> {60}
      [] \E l \in PopLimits : k = PopularKey("weekly", l) -> {240}
      [] \E l \in PopLimits : k = PopularKey("monthly", l) -> {720}
      [] \E l \in PopLimits : k = PopularKey("all_time", l) -> {1440}
      [] OTHER -> {}

\* C9: every cache entry carries a finite positive time to live (10, 15 or
\* 30 minutes, or 1, 4, 12 or 24 hours), and once an entry has expired the
\* next read of its key is not served from the cache and returns what the
\* store holds.
BoundedStaleness ==
    [][/\ \A k \in DOMAIN cache' :
             cache'[k].ttl > 0 /\ cache'[k].ttl \in TimeToLive(k)
       /\ (last.op = "Expire" /\ last'.op \in CachedReads /\ last'.key = last.key)
            => ~last'.hit /\ AnsweredFromStore']_vars

\* one ranking has expired while the all-time ranking is cached for 24 hours
BoundedStalenessWitness ==
    /\ last.op = "Expire" /\ last.key \notin DOMAIN cache
    /\ PopularKey("all_time", 1) \in DOMAIN cache
    /\ cache[PopularKey("all_time", 1)].ttl = 1440

(* ======================== properties of SpecRace ======================= *)
\* the position of an event in the order of calls, 0 if it has not happened
Pos(ev, p) ==
    IF \E i \in DOMAIN hist : hist[i] = [ev |-> ev, p |-> p]
    THEN CHOOSE i \in DOMAIN hist : hist[i] = [ev |-> ev, p |-> p]
    ELSE 0

AllDone == \A p \in DOMAIN pc : pc[p] = "done"

\* the calls that wrote the cache key of the manga, and the last of them
CacheWrites == {i \in DOMAIN hist : hist[i].ev \in {"set", "del"}}
LastCacheWrite == CHOOSE i \in CacheWrites : \A j \in CacheWrites : j <= i

\* reader r loaded before the commit and its Set, after the writer's Delete,
\* was the last write of the key
StaleInterleaving(r) ==
    /\ family = "race" /\ AllDone
    /\ 0 < Pos("load", r) /\ Pos("load", r) < Pos("commit", Writer)
    /\ Pos("del", Writer) < Pos("set", r)
    /\ LastCacheWrite = Pos("set", r)

\* C8: when the reader loads the record before the writer commits and sets
\* the key after the writer has deleted it, the cache is left holding the
\* record as it was before the update; this interleaving occurs.
StaleRepopulation ==
    \A r \in Readers :
        StaleInterleaving(r)
            => /\ RaceKey \in DOMAIN cache
               /\ UnmarshalManga(cache[RaceKey].val).val = OldManga
               /\ mangaDB[RaceId] = NewManga

\* both requests have finished and the cache holds the record of before
StaleRepopulationWitness ==
    /\ \E r \in Readers : StaleInterleaving(r)
    /\ RaceKey \in DOMAIN cache
    /\ cache[RaceKey].val = MarshalManga(OldManga)
    /\ mangaDB[RaceId] = NewManga

\* C10: each GetByID that misses calls mangaRepo.GetByID once and Set once
\* and returns the record the store held when it loaded; the cache holds
\* the value of the Set that ran last.
MissesNotDeduplicated ==
    family = "race" =>
        /\ \A r \in Readers :
              (pc[r] = "done" /\ loc[r].missed)
                  => /\ loc[r].loads = 1 /\ loc[r].sets = 1
                     /\ loc[r].res =
                          IF Pos("commit", Writer) = 0
                               \/ Pos("load", r) < Pos("commit", Writer)
                          THEN OldManga ELSE NewManga
        /\ (CacheWrites # {} /\ hist[LastCacheWrite].ev = "set")
              => /\ RaceKey \in DOMAIN cache
                 /\ cache[RaceKey].val = MarshalManga(loc[hist[LastCacheWrite].p].res)

\* every reader missed, each loaded and set once, and they returned
\* different records
MissesNotDeduplicatedWitness ==
    /\ family = "race" /\ AllDone
    /\ \A r \in Readers : loc[r].missed /\ loc[r].loads = 1 /\ loc[r].sets = 1
    /\ \E r1, r2 \in Readers : loc[r1].res # loc[r2].res

(* ------------------------ filtered manga lists ------------------------- *)
Filtered(filter) ==
    filter.Title # "" \/ filter.Status # "" \/ filter.Genres # <<>>

\* C11: a List whose filter names a title, a status or genres makes no
\* cache Get and no cache Set, leaves the cache as it is and calls
\* mangaRepo.List; a List with none of them works on the key
\* manga:list:<limit>:<offset>.
FilteredListBypassesCache ==
    [][\A filter \in Filters, getFail, setFail, dbFail \in BOOLEAN :
          MangaList(filter, getFail, setFail, dbFail)
              => IF Filtered(filter)
                 THEN /\ cache' = cache
                      /\ last'.key = "" /\ ~last'.hit /\ last'.sets = {}
                      /\ last'.repo = {"mangaRepo.List"}
                 ELSE last'.key = MangaListKey(filter.Limit, filter.Offset)]_vars

\* a filtered List answered by the store while the cache holds the
\* unfiltered page of the same limit and offset
FilteredListBypassesCacheWitness ==
    /\ last.op = "MangaList" /\ last.key = "" /\ last.res.ok
    /\ last.repo = {"mangaRepo.List"}
    /\ \E limit \in Limits, offset \in Offsets :
          /\ MangaListKey(limit, offset) \in DOMAIN cache
          /\ cache[MangaListKey(limit, offset)].val # MarshalMangaList(last.res.val)

(* ============================ token service ============================ *)
MaxUserId == 1
MaxClock == 3
MaxHeld == 2
\* lifetimes of the two tokens, in ticks of the clock (hours and days)
AccessExpires == 2
RefreshExpires == 3

UserIds == 1..MaxUserId
Roles == {"user", "admin"}
Passwords == {"p", "q"}
Secrets == {"k1", "k2"}
UsernameOf(id) == "u" \o ToString(id)

\* NewJWTService: the secrets and lifetimes are stored as given
NewJWTService(accessSecret, refreshSecret, accessExp, refreshExp) ==
    [accessSecret |-> accessSecret, refreshSecret |-> refreshSecret,
     accessExpires |-> accessExp, refreshExpires |-> refreshExp]

\* a signed token: header alg, the key of its HMAC, and the Claims
SignedString(secret, claims, exp, nbf) ==
    [alg |-> "HS256", sig |-> secret, UserID |-> claims.UserID,
     Username |-> claims.Username, Role |-> claims.Role,
     exp |-> exp, nbf |-> nbf]

\* faulty variant: the role claim is always "user"
GenerateAccessTokenAsUser(s, user, t) ==
    SignedString(s.accessSecret,
                 [UserID |-> user.id, Username |-> user.username,
                  Role |-> "user"],
                 t + s.accessExpires, t)

GenerateAccessToken(s, user, t) ==
    SignedString(s.accessSecret,
                 [UserID |-> user.id, Username |-> user.username,
                  Role |-> user.role],
                 t + s.accessExpires, t)

GenerateRefreshToken(s, userID, t) ==
    SignedString(s.refreshSecret,
                 [UserID |-> userID, Username |-> "", Role |-> ""],
                 t + s.refreshExpires, t)

GenerateTokenPair(s, user, t) ==
    [AccessToken |-> GenerateAccessToken(s, user, t),
     RefreshToken |-> GenerateRefreshToken(s, user.id, t)]

\* tokens the service never minted: Garbage, one signed by a foreign key,
\* and one whose header names no HMAC method
ForeignAdmin ==
    [SignedString("k0", [UserID |-> 1, Username |-> UsernameOf(1),
                         Role |-> "admin"], MaxClock + 1, 0)
     EXCEPT !.sig = "k0"]
AlgNone == [ForeignAdmin EXCEPT !.alg = "none", !.sig = ""]
Forged == {Garbage, ForeignAdmin, AlgNone}

ClaimsOf(tok) ==
    [UserID |-> tok.UserID, Username |-> tok.Username, Role |-> tok.Role]

\* the message validateToken gives an expired token
TokenExpiredMsg == "token expired"

\* jwt.ParseWithClaims (v4.5.1): segments, key function (HMAC only),
\* signature, then the registered claims; only an expiry is renamed
validateToken(tok, secret, t) ==
    IF tok.alg = "" THEN Err("token is malformed")
    ELSE IF tok.alg # "HS256" THEN Err("unexpected signing method")
    ELSE IF tok.sig # secret THEN Err("signature is invalid")
    ELSE IF ~(t < tok.exp) THEN Err(TokenExpiredMsg)
    ELSE IF t < tok.nbf THEN Err("token is not valid yet")
    ELSE Ok(ClaimsOf(tok))

\* faulty variant: the access token is also checked against the user store
ValidateAgainstStore(s, tok, t) ==
    LET v == validateToken(tok, s.accessSecret, t)
    IN IF v.ok /\ (tok.UserID \notin DOMAIN userDB
                     \/ userDB[tok.UserID].role # tok.Role)
       THEN Err("user changed") ELSE v

ValidateAccessToken(s, tok, t) == validateToken(tok, s.accessSecret, t)

\* the latest request was a RefreshToken that this token passed
Refreshed(tok) ==
    resp.op = "RefreshToken" /\ resp.status = 200 /\ resp.tok = tok

\* faulty variant: a refresh token is good for one refresh only
ValidateRefreshOnce(s, tok, t) ==
    IF Refreshed(tok)
    THEN Err("token already used")
    ELSE validateToken(tok, s.refreshSecret, t)

ValidateRefreshToken(s, tok, t) == validateToken(tok, s.refreshSecret, t)

\* faulty variant: the pair is minted for the user whoever the token names
RefreshTokensAnyUser(s, refreshToken, user, t) ==
    LET claims == ValidateRefreshToken(s, refreshToken, t)
    IN IF ~claims.ok THEN claims ELSE Ok(GenerateTokenPair(s, user, t))

\* JWTService.RefreshTokens: the token must name the user it is used for
RefreshTokens(s, refreshToken, user, t) ==
    LET claims == ValidateRefreshToken(s, refreshToken, t)
    IN IF ~claims.ok THEN claims
       ELSE IF claims.val.UserID # user.id THEN Err("token is not the user's")
       ELSE Ok(GenerateTokenPair(s, user, t))

(* ----------------------------- user store ------------------------------ *)
UserRepoGetByID(db, id, fail) ==
    IF fail THEN DatabaseError
    ELSE IF id \in DOMAIN db THEN Ok(db[id]) ELSE NotFoundError("USER")

UserRepoGetByUsername(db, username, fail) ==
    IF fail THEN DatabaseError
    ELSE IF \E i \in DOMAIN db : db[i].username = username
    THEN Ok(db[CHOOSE i \in DOMAIN db : db[i].username = username])
    ELSE NotFoundError("USER")

\* bcrypt.CompareHashAndPassword of the stored hash and a password
CompareHashAndPassword(stored, password) == stored = password

(* ------------------------------ middleware ----------------------------- *)
NoCtx == [present |-> FALSE, user_id |-> 0, user_role |-> "", username |-> ""]

\* strings.SplitN(authHeader, " ", 2) of a header given as its words
SplitN(header) ==
    IF Len(header) <= 2 THEN header ELSE <<header[1], Garbage>>

\* what a handler of the chain decided: next called or a response written
Passed(ctx) == [passed |-> TRUE, status |-> 0, code |-> "", ctx |-> ctx]
Rejected(status, code) ==
    [passed |-> FALSE, status |-> status, code |-> code, ctx |-> NoCtx]

\* faulty variant: the scheme of the header is not looked at
AuthenticationAnyScheme(s, header, t) ==
    LET parts == SplitN(header)
    IN IF Len(parts) # 2 THEN Rejected(401, "UNAUTHORIZED")
       ELSE LET claims == ValidateAccessToken(s, parts[2], t)
            IN IF ~claims.ok THEN Rejected(401, "JWT_INVALID")
               ELSE Passed([present |-> TRUE, user_id |-> claims.val.UserID,
                            user_role |-> claims.val.Role,
                            username |-> claims.val.Username])

Authentication(s, header, t) ==
    LET parts == SplitN(header)
    IN IF header = <<>> THEN Rejected(401, "UNAUTHORIZED")
       ELSE IF Len(parts) # 2 \/ parts[1] # "Bearer"
       THEN Rejected(401, "UNAUTHORIZED")
       ELSE LET claims == ValidateAccessToken(s, parts[2], t)
            IN IF ~claims.ok THEN Rejected(401, "JWT_INVALID")
               ELSE Passed([present |-> TRUE, user_id |-> claims.val.UserID,
                            user_role |-> claims.val.Role,
                            username |-> claims.val.Username])

\* the handler panicked before it wrote anything
Panicked == Rejected(0, "panic")

\* the logger a caller hands to the response package
NilLogger == "nil"

\* response.Error: the error is logged, then the response is written; the
\* call of log.Error on a nil logger panics
RespondError(log, status, code) ==
    IF log = NilLogger THEN Panicked ELSE Rejected(status, code)

\* response.Unauthorized and response.Forbidden
Unauthorized(log) == RespondError(log, 401, "UNAUTHORIZED")
Forbidden(log) == RespondError(log, 403, "FORBIDDEN")

\* faulty variant: any role found in the context passes
RequireAnyRole(roles, ctx) ==
    IF ~ctx.present THEN Unauthorized(NilLogger) ELSE Passed(ctx)

RequireRole(roles, ctx) ==
    IF ~ctx.present THEN Unauthorized(NilLogger)
    ELSE IF ctx.user_role \notin roles THEN Forbidden(NilLogger)
    ELSE Passed(ctx)

\* faulty variant: the panic is not recovered
RecoveryRethrow(d) == d

\* Recovery, the outermost handler of every route: a panic further down
\* the chain is logged and answered 500 INTERNAL_ERROR
Recovery(d) ==
    IF d.code = Panicked.code
    THEN [d EXCEPT !.status = 500, !.code = "INTERNAL_ERROR"]
    ELSE d

(* -------------------------------- routes ------------------------------- *)
PublicRoutes ==
    {"GET /health", "POST /users/register", "POST /users/login",
     "POST /users/refresh", "GET /manga", "GET /manga/popular",
     "GET /manga/{id}", "GET /manga/{id}/chapters", "GET /chapters/{id}",
     "GET /chapters/{id}/pages", "GET /pages/{id}", "GET /pages/{id}/image",
     "GET /analytics/manga/top", "GET /analytics/chapters/top"}
UserRoutes ==
    {"GET /users/me", "PUT /users/me", "POST /users/logout",
     "GET /users/bookmarks", "POST /users/bookmarks",
     "DELETE /users/bookmarks/{mangaID}", "GET /users/history",
     "DELETE /users/history/{id}"}
AdminRoutes ==
    {"GET /users", "GET /users/{id}", "PUT /users/{id}", "DELETE /users/{id}",
     "POST /manga", "PUT /manga/{id}", "DELETE /manga/{id}",
     "POST /chapters", "PUT /chapters/{id}", "DELETE /chapters/{id}",
     "POST /pages", "POST /pages/upload", "PUT /pages/{id}",
     "DELETE /pages/{id}", "POST /analytics/reset/daily",
     "POST /analytics/reset/weekly", "POST /analytics/reset/monthly",
     "GET /analytics/stats"}
Routes == PublicRoutes \cup UserRoutes \cup AdminRoutes

\* the r.Use chain in front of the handler of a route
Middlewares(route) ==
    IF route \in AdminRoutes THEN <<"authMiddleware", "adminMiddleware">>
    ELSE IF route \in UserRoutes THEN <<"authMiddleware">>
    ELSE <<>>

RECURSIVE Serve(_, _, _, _)
\* run the chain, then the handler
Serve(chain, ctx, header, authed) ==
    IF chain = <<>>
    THEN [passed |-> authed, invoked |-> TRUE, status |-> 200, code |-> "",
          ctx |-> ctx]
    ELSE LET d == IF Head(chain) = "authMiddleware"
                  THEN Authentication(jwtService, header, now)
                  ELSE RequireRole({"admin"}, ctx)
         IN IF d.passed
            THEN Serve(Tail(chain), d.ctx, header,
                       authed \/ Head(chain) = "authMiddleware")
            ELSE [passed |-> authed, invoked |-> FALSE, status |-> d.status,
                  code |-> d.code, ctx |-> ctx]

(* ------------------------------ requests ------------------------------- *)
\* the client keeps a pair it was given while it has room for it
Keep(pair) ==
    LET more == held \cup {pair.AccessToken, pair.RefreshToken}
    IN IF Cardinality(more) <= MaxHeld THEN more ELSE held

Reply(op, status, code) ==
    [NoResp EXCEPT !.op = op, !.status = status, !.code = code]

\* userUseCase.RefreshToken when the refresh token does not validate: an
\* expiry is NewJWTExpiredError, everything else NewJWTInvalidError(err)
RefreshFailure(err) ==
    IF err = TokenExpiredMsg
    THEN Reply("RefreshToken", 401, "JWT_EXPIRED")
    ELSE Reply("RefreshToken", 401, "JWT_INVALID")

\* userUseCase.Login
Login(username, password, dbFail) ==
    LET u == UserRepoGetByUsername(userDB, username, dbFail)
        pair == GenerateTokenPair(jwtService, u.val, now)
    IN /\ family \in {"auth", "refresh"}
       /\ IF username = "" \/ password = ""
          THEN resp' = Reply("Login", 400, "VALIDATION_ERROR") /\ held' = held
          ELSE IF ~u.ok
          THEN /\ resp' = IF dbFail THEN Reply("Login", 500, "DATABASE_ERROR")
                          ELSE Reply("Login", 401, "INVALID_CREDENTIALS")
               /\ held' = held
          ELSE IF ~CompareHashAndPassword(u.val.password, password)
          THEN resp' = Reply("Login", 401, "INVALID_CREDENTIALS") /\ held' = held
          ELSE /\ resp' = [Reply("Login", 200, "") EXCEPT !.pair = pair]
               /\ held' = Keep(pair)
       /\ UNCHANGED <<family, storeVars, cache, views, last, raceVars,
                      jwtService, userDB, now>>

\* faulty variant: the pair is minted from the claims of the refresh token
RefreshFromClaims(refreshToken, dbFail) ==
    LET claims == ValidateRefreshToken(jwtService, refreshToken, now)
        pair == GenerateTokenPair(jwtService,
                                  [id |-> claims.val.UserID,
                                   username |-> claims.val.Username,
                                   role |-> claims.val.Role], now)
    IN /\ family = "auth"
       /\ ~dbFail
       /\ IF ~claims.ok
          THEN resp' = Reply("RefreshToken", 401, "JWT_INVALID") /\ held' = held
          ELSE /\ resp' = [Reply("RefreshToken", 200, "") EXCEPT !.pair = pair]
               /\ held' = Keep(pair)
       /\ UNCHANGED <<family, storeVars, cache, views, last, raceVars,
                      jwtService, userDB, now>>

\* userUseCase.RefreshToken
RefreshToken(refreshToken, dbFail) ==
    LET claims == ValidateRefreshToken(jwtService, refreshToken, now)
        user == UserRepoGetByID(userDB, claims.val.UserID, dbFail)
        pair == GenerateTokenPair(jwtService, user.val, now)
    IN /\ family = "auth"
       /\ IF ~claims.ok
          THEN /\ ~dbFail
               /\ resp' = RefreshFailure(claims.err)
               /\ held' = held
          ELSE IF ~user.ok
          THEN /\ resp' = Reply("RefreshToken",
                                IF dbFail THEN 500 ELSE 404, user.err)
               /\ held' = held
          ELSE /\ resp' = [Reply("RefreshToken", 200, "")
                              EXCEPT !.pair = pair, !.tok = refreshToken,
                                     !.again = Refreshed(refreshToken)]
               /\ held' = Keep(pair)
       /\ UNCHANGED <<family, storeVars, cache, views, last, raceVars,
                      jwtService, userDB, now>>

\* what the router does with a request: the chain of the route, then its
\* handler
Served(route, header) ==
    Recovery(Serve(Middlewares(route), NoCtx, header, FALSE))

\* a request to a route
Request(route, header) ==
    LET d == Served(route, header)
    IN /\ family = "auth"
       /\ resp' = [NoResp EXCEPT !.op = "Request", !.status = d.status,
                                 !.code = d.code, !.passed = d.passed,
                                 !.invoked = d.invoked,
                                 !.ctx = [UserID |-> d.ctx.user_id,
                                          Username |-> d.ctx.username,
                                          Role |-> d.ctx.user_role]]
       /\ UNCHANGED <<family, storeVars, cache, views, last, raceVars,
                      jwtService, userDB, now, held>>

\* UserRepository.Update: role and password hash of a stored user
UpdateUser(id, role, password) ==
    /\ family = "auth"
    /\ id \in DOMAIN userDB
    /\ userDB' = [userDB EXCEPT ![id].role = role, ![id].password = password]
    /\ resp' = Reply("UpdateUser", 200, "")
    /\ UNCHANGED <<family, storeVars, cache, views, last, raceVars,
                   jwtService, now, held>>

\* UserRepository.Delete
DeleteUser(id) ==
    /\ family = "auth"
    /\ id \in DOMAIN userDB
    /\ userDB' = Drop(userDB, id)
    /\ resp' = Reply("DeleteUser", 200, "")
    /\ UNCHANGED <<family, storeVars, cache, views, last, raceVars,
                   jwtService, now, held>>

\* time passes
Tick ==
    /\ family \in {"auth", "refresh"}
    /\ now < MaxClock
    /\ now' = now + 1
    /\ UNCHANGED <<family, storeVars, cache, views, last, raceVars,
                   jwtService, userDB, held, resp>>

Headers ==
    {<<>>, <<"Bearer">>}
        \cup {<<"Bearer", tok>> : tok \in held \cup Forged}
        \cup {<<"Basic", tok>> : tok \in held}
        \cup {<<"Bearer", tok, tok>> : tok \in held}

InitAuth ==
    /\ family = "auth"
    /\ mangaDB = Empty /\ mangaOrder = <<>> /\ nextMangaId = 1
    /\ chapterDB = Empty /\ nextChapterId = 1
    /\ pageDB = Empty /\ nextPageId = 1
    /\ cache = Empty /\ views = NoViews /\ last = NoCall
    /\ pc = <<>> /\ loc = <<>> /\ hist = <<>>
    /\ jwtService \in {NewJWTService("k1", r, AccessExpires, RefreshExpires) :
                          r \in Secrets}
    /\ userDB = [i \in UserIds |->
                    [id |-> i, username |-> UsernameOf(i),
                     role |-> IF i = 1 THEN "admin" ELSE "user",
                     password |-> "p"]]
    /\ now = 0
    /\ held = {}
    /\ resp = NoResp

NextAuth ==
    \/ \E id \in UserIds, password \in Passwords \cup {""}, dbFail \in BOOLEAN :
          Login(IF id = 0 THEN "" ELSE UsernameOf(id), password, dbFail)
    \/ \E tok \in held \cup Forged, dbFail \in BOOLEAN : RefreshToken(tok, dbFail)
    \/ \E route \in Routes, header \in Headers : Request(route, header)
    \/ \E id \in UserIds, role \in Roles, password \in Passwords :
          UpdateUser(id, role, password)
    \/ \E id \in UserIds : DeleteUser(id)
    \/ Tick

SpecAuth == InitAuth /\ [][NextAuth]_vars

(* ------------------------- token-service claims ------------------------ *)
Issued == resp.op \in {"Login", "RefreshToken"} /\ resp.status = 200

\* C12: the access token of an issued pair is rejected by
\* ValidateRefreshToken and its refresh token is rejected by
\* ValidateAccessToken, whatever secrets NewJWTService was given.
TokensNotInterchangeable ==
    Issued =>
        /\ ~ValidateRefreshToken(jwtService, resp.pair.AccessToken, now).ok
        /\ ~ValidateAccessToken(jwtService, resp.pair.RefreshToken, now).ok

\* a token the service signed with this secret, past its expiry
ExpiredToken(tok, secret) ==
    tok.alg = "HS256" /\ tok.sig = secret /\ ~(now < tok.exp)

\* C13: an expired access token at the Authentication middleware and an
\* expired refresh token at RefreshToken are both answered with JWT_EXPIRED.
ExpiredReportedAsExpired ==
    [][/\ \A tok \in held, dbFail \in BOOLEAN :
             (/\ ExpiredToken(tok, jwtService.refreshSecret)
              /\ RefreshToken(tok, dbFail))
                 => resp'.code = "JWT_EXPIRED"
       /\ \A route \in UserRoutes \cup AdminRoutes, tok \in held :
             (/\ ExpiredToken(tok, jwtService.accessSecret)
              /\ Request(route, <<"Bearer", tok>>))
                 => resp'.code = "JWT_EXPIRED"]_vars

\* the step is a Login or a RefreshToken that issued a pair for user id
IssuesFor(id) ==
    /\ \/ \E password \in Passwords, dbFail \in BOOLEAN :
             Login(UsernameOf(id), password, dbFail)
       \/ \E tok \in held \cup Forged, dbFail \in BOOLEAN :
             tok.UserID = id /\ RefreshToken(tok, dbFail)
    /\ resp'.status = 200

UserClaims(user) ==
    [UserID |-> user.id, Username |-> user.username, Role |-> user.role]

\* C14: at every time before its expiry the access token of a pair issued
\* for a user validates to that user's id, username and role, and at every
\* time before its expiry the refresh token validates to that user's id.
TokenRoundTrip ==
    [][\A id \in UserIds :
          IssuesFor(id) =>
              \A t \in now..MaxClock :
                 /\ t < resp'.pair.AccessToken.exp
                       => ValidateAccessToken(jwtService, resp'.pair.AccessToken, t)
                             = Ok(UserClaims(userDB[id]))
                 /\ t < resp'.pair.RefreshToken.exp
                       => LET v == ValidateRefreshToken(jwtService,
                                                        resp'.pair.RefreshToken, t)
                          IN v.ok /\ v.val.UserID = id]_vars

\* a pair issued to an admin earlier still validates now
TokenRoundTripWitness ==
    /\ Issued
    /\ now > resp.pair.AccessToken.nbf
    /\ LET v == ValidateAccessToken(jwtService, resp.pair.AccessToken, now)
       IN v.ok /\ v.val.Role = "admin" /\ v.val.UserID \in UserIds
    /\ ValidateRefreshToken(jwtService, resp.pair.RefreshToken, now).ok

\* C15: a RefreshToken given a valid refresh token issues a pair carrying
\* the username and role the store holds for the user at that moment; when
\* the store holds no such user it answers USER_NOT_FOUND and issues nothing.
RefreshRefetchesUser ==
    [][\A tok \in held \cup Forged :
          (/\ ValidateRefreshToken(jwtService, tok, now).ok
           /\ RefreshToken(tok, FALSE))
              => IF tok.UserID \in DOMAIN userDB
                 THEN /\ resp'.status = 200
                      /\ ClaimsOf(resp'.pair.AccessToken)
                            = UserClaims(userDB[tok.UserID])
                      /\ resp'.pair.RefreshToken.UserID = tok.UserID
                 ELSE /\ resp'.code = "USER_NOT_FOUND"
                      /\ resp'.pair = NoPair
                      /\ held' = held]_vars

\* a refresh issued a "user" access token while the client still holds the
\* "admin" access token of the same user
RefreshRefetchesUserWitness ==
    /\ resp.op = "RefreshToken" /\ resp.status = 200
    /\ resp.pair.AccessToken.Role = "user"
    /\ \E tok \in held : /\ tok.UserID = resp.pair.AccessToken.UserID
                         /\ tok.Role = "admin"

\* C16: a refresh token that a RefreshToken call has accepted is still
\* accepted, while it has not expired, by ValidateRefreshToken and by the
\* next RefreshToken call made with it.
RefreshTokenReusable ==
    [][\A tok \in held \cup Forged :
          (Refreshed(tok) /\ now < tok.exp)
              => /\ ValidateRefreshToken(jwtService, tok, now).ok
                 /\ tok.UserID \in DOMAIN userDB
                       => RefreshTokens(jwtService, tok, userDB[tok.UserID],
                                        now).ok
                 /\ (RefreshToken(tok, FALSE) /\ tok.UserID \in DOMAIN userDB)
                       => resp'.status = 200 /\ resp'.again]_vars

\* the same refresh token was accepted twice, the second time later than
\* it was minted
RefreshTokenReusableWitness ==
    /\ resp.op = "RefreshToken" /\ resp.status = 200 /\ resp.again
    /\ resp.tok.nbf < now
    /\ resp.tok.UserID \in DOMAIN userDB

\* C17: what Authentication decides for a header, and the user id,
\* username and role it puts into the context, depend on the token, the
\* secret and the clock only: a step that changes the user store (a role or
\* password update, a deletion) leaves the decision for every header as it
\* was.
StatelessValidity ==
    [][userDB' # userDB
          => \A header \in Headers :
                Authentication(jwtService, header, now)'
                    = Authentication(jwtService, header, now)]_vars

\* a request of a deleted user, or of a user whose role was changed, passed
\* Authentication with the claims of its token
StatelessValidityWitness ==
    /\ resp.op = "Request" /\ resp.passed
    /\ \/ resp.ctx.UserID \notin DOMAIN userDB
       \/ userDB[resp.ctx.UserID].role # resp.ctx.Role
    /\ resp.ctx.Role = "admin"

\* the header is "Bearer <token>" and the token is a valid access token
BearerOfValidToken(header) ==
    /\ Len(header) = 2 /\ header[1] = "Bearer"
    /\ ValidateAccessToken(jwtService, header[2], now).ok

\* C18: for a request to a route behind Authentication the handler wrapped
\* by it is called exactly when the header is "Bearer <token>" with a token that
\* ValidateAccessToken accepts, and then the context holds the claims of
\* the token; otherwise the response is 401 and no handler runs.
AuthenticationGate ==
    \A route \in UserRoutes \cup AdminRoutes, header \in Headers :
       LET d == Served(route, header)
       IN IF BearerOfValidToken(header)
          THEN /\ d.passed
               /\ d.ctx.user_id = header[2].UserID
               /\ d.ctx.user_role = header[2].Role
               /\ d.ctx.username = header[2].Username
               /\ route \in UserRoutes => d.invoked
          ELSE ~d.passed /\ ~d.invoked /\ d.status = 401

\* a handler ran for a token with the role "user"
AuthenticationGateWitness ==
    /\ resp.op = "Request" /\ resp.passed /\ resp.invoked
    /\ resp.ctx.Role = "user" /\ resp.ctx.UserID \in UserIds

\* the routes that create, update or delete a manga, a chapter or a page,
\* and the routes that reset the analytics
WriteRoutes ==
    {"POST /manga", "PUT /manga/{id}", "DELETE /manga/{id}",
     "POST /chapters", "PUT /chapters/{id}", "DELETE /chapters/{id}",
     "POST /pages", "POST /pages/upload", "PUT /pages/{id}",
     "DELETE /pages/{id}", "POST /analytics/reset/daily",
     "POST /analytics/reset/weekly", "POST /analytics/reset/monthly"}

\* the contexts a request can carry into RequireRole
Contexts ==
    {NoCtx} \cup {[present |-> TRUE, user_id |-> tok.UserID,
                   user_role |-> tok.Role, username |-> tok.Username] :
                     tok \in held \cup Forged}

\* C19: RequireRole(roles) calls the wrapped handler only for a context
\* whose role is one of roles, and the handler of every write route and of
\* every analytics reset route runs only for a request whose header is
\* "Bearer <token>" with a valid access token of role "admin".
AdminOnlyWrites ==
    /\ \A roles \in SUBSET Roles, ctx \in Contexts :
          RequireRole(roles, ctx).passed
              => ctx.present /\ ctx.user_role \in roles
    /\ \A route \in WriteRoutes, header \in Headers :
          Served(route, header).invoked
              => BearerOfValidToken(header) /\ header[2].Role = "admin"

\* a valid token of role "user" was stopped in front of a handler
AdminOnlyWritesWitness ==
    /\ resp.op = "Request" /\ resp.passed /\ ~resp.invoked
    /\ resp.status >= 400 /\ resp.ctx.Role = "user"
    /\ \E header \in Headers, route \in WriteRoutes :
          /\ BearerOfValidToken(header) /\ header[2].Role = "user"
          /\ ~Served(route, header).invoked

(* ============================ view counters ============================ *)
MaxSubjectId == 2
MaxRecorded == 4
SubjectIds == 1..MaxSubjectId

\* one call of RecordMangaView, RecordChapterView or RecordPageView (a
\* behaviour records views until it ends with a query of the rankings)
RecordViewCall(kind, id, fail) ==
    /\ family = "views"
    /\ last = NoCall
    /\ Len(hist) < MaxRecorded
    /\ views' = CASE kind = "manga" -> RecordMangaView(views, id, fail)
                  [] kind = "chapter" -> RecordChapterView(views, id, fail)
                  [] kind = "page" -> RecordPageView(views, id, fail)
    /\ hist' = IF fail THEN hist ELSE Append(hist, <<kind, id>>)
    /\ UNCHANGED <<family, authVars, storeVars, cache, last, pc, loc>>

InitViews ==
    /\ family = "views"
    /\ mangaDB = Empty /\ mangaOrder = <<>> /\ nextMangaId = 1
    /\ chapterDB = Empty /\ nextChapterId = 1
    /\ pageDB = Empty /\ nextPageId = 1
    /\ cache = Empty /\ views = NoViews /\ last = NoCall
    /\ pc = <<>> /\ loc = <<>> /\ hist = <<>>
    /\ AuthIdle

NextViews ==
    \E kind \in Kinds, id \in SubjectIds, fail \in BOOLEAN :
       RecordViewCall(kind, id, fail)

SpecViews == InitViews /\ [][NextViews]_vars

\* the number of successful calls recorded for a subject
Recorded(kind, id) == Cardinality({i \in 1..Len(hist) : hist[i] = <<kind, id>>})

AllPeriods == {"daily", "weekly", "monthly", "all_time"}

\* C20: a successful RecordMangaView, RecordChapterView or RecordPageView
\* adds exactly 1 to the score of its subject in the daily, weekly, monthly
\* and all_time set of its kind, creating the entry at the first view, and
\* changes no other score; after k such calls for a subject its score is k
\* in every period.
ViewsCountedInEveryPeriod ==
    /\ [](\A kind \in Kinds, id \in SubjectIds, period \in AllPeriods :
             /\ Score(views[<<kind, period>>], id) = Recorded(kind, id)
             /\ id \in DOMAIN views[<<kind, period>>] <=> Recorded(kind, id) > 0)
    /\ [][\A kind \in Kinds, id \in SubjectIds :
             RecordViewCall(kind, id, FALSE)
                 => \A k \in Kinds, i \in SubjectIds, period \in AllPeriods :
                       Score(views'[<<k, period>>], i)
                          = Score(views[<<k, period>>], i)
                               + IF k = kind /\ i = id THEN 1 ELSE 0]_vars

\* one page was viewed twice and another subject once
ViewsCountedInEveryPeriodWitness ==
    /\ family = "views"
    /\ \E id \in SubjectIds :
          /\ Recorded("page", id) = 2
          /\ \A period \in AllPeriods : Score(views[<<"page", period>>], id) = 2
    /\ \E id \in SubjectIds : Recorded("manga", id) = 1

(* ======================== ranking sets and resets ====================== *)
\* faulty variant: the reset clears the ranking sets of every period
ResetStatsEveryPeriod(v, period, fail) ==
    IF fail THEN v ELSE [k \in DOMAIN v |-> Empty]

\* DEL of the ranking set of the period for every subject kind
ResetStats(v, period, fail) ==
    IF fail THEN v
    ELSE [k \in DOMAIN v |-> IF k[2] = period THEN Empty ELSE v[k]]

\* one call of ResetStats; the reset is logged as <<period, 0>>
ResetStatsCall(period, fail) ==
    /\ family = "views"
    /\ last = NoCall
    /\ Len(hist) < MaxRecorded
    /\ views' = ResetStats(views, period, fail)
    /\ hist' = IF fail THEN hist ELSE Append(hist, <<period, 0>>)
    /\ UNCHANGED <<family, authVars, storeVars, cache, last, pc, loc>>

\* faulty variant: the range is taken from the lowest score upwards (ZRANGE)
ZRangeWithScores(z, start, stop) ==
    LET ranked == Ranked(z, DOMAIN z)
        n == Len(ranked)
        hi == IF stop < 0 THEN n + stop ELSE IF stop < n THEN stop ELSE n - 1
    IN [id \in {ranked[n + 1 - i] : i \in (start + 1)..(hi + 1)} |-> z[id]]

\* ZREVRANGE start stop WITHSCORES, the reply turned into a map from member
\* to score (the order of the reply is not kept by the map)
ZRevRangeWithScores(z, start, stop) ==
    LET ranked == Ranked(z, DOMAIN z)
        n == Len(ranked)
        lo == IF start >= 0 THEN start ELSE IF n + start < 0 THEN 0 ELSE n + start
        hi == IF stop < 0 THEN n + stop ELSE IF stop < n THEN stop ELSE n - 1
    IN [id \in {ranked[i] : i \in (lo + 1)..(hi + 1)} |-> z[id]]

RECURSIVE JoinChapters(_, _, _)
\* the rows of the ranked ids whose chapter still exists
JoinChapters(ranked, z, db) ==
    IF ranked = <<>> THEN <<>>
    ELSE IF Head(ranked) \in DOMAIN db
    THEN <<[chapter_id |-> Head(ranked), manga_id |-> db[Head(ranked)].manga_id,
            number |-> db[Head(ranked)].number, views |-> z[Head(ranked)]]>>
            \o JoinChapters(Tail(ranked), z, db)
    ELSE JoinChapters(Tail(ranked), z, db)

\* the limit highest-scored chapters of the period, highest first
GetTopChapters(v, db, period, limit, fail) ==
    IF fail THEN DatabaseError
    ELSE LET z == ZRevRangeWithScores(v[<<"chapter", period>>], 0, limit - 1)
         IN Ok(JoinChapters(Ranked(z, DOMAIN z), z, db))

TopLimits == 1..(MaxSubjectId + 1)

\* one call of GetTopManga; the ghost keeps the period, the limit and the rows
GetTopMangaCall(period, limit, fail) ==
    /\ family = "views"
    /\ last = NoCall
    /\ last' = [NoCall EXCEPT !.op = "GetTopManga", !.id = limit, !.key = period,
                              !.res = GetTopManga(views, mangaDB, period, limit, fail),
                              !.dbfail = fail]
    /\ UNCHANGED <<family, authVars, storeVars, cache, views, raceVars>>

\* one call of GetTopChapters
GetTopChaptersCall(period, limit, fail) ==
    /\ family = "views"
    /\ last = NoCall
    /\ last' = [NoCall EXCEPT !.op = "GetTopChapters", !.id = limit, !.key = period,
                              !.res = GetTopChapters(views, chapterDB, period, limit, fail),
                              !.dbfail = fail]
    /\ UNCHANGED <<family, authVars, storeVars, cache, views, raceVars>>

StatTitle == "a"

InitStats ==
    /\ family = "views"
    /\ mangaDB = [id \in SubjectIds |-> [id |-> id, title |-> StatTitle]]
    /\ mangaOrder = <<>> /\ nextMangaId = MaxSubjectId + 1
    /\ chapterDB = [id \in SubjectIds |-> [id |-> id, manga_id |-> id, number |-> 1]]
    /\ nextChapterId = MaxSubjectId + 1
    /\ pageDB = Empty /\ nextPageId = 1
    /\ cache = Empty /\ views = NoViews /\ last = NoCall
    /\ pc = <<>> /\ loc = <<>> /\ hist = <<>>
    /\ AuthIdle

NextStats ==
    \/ \E kind \in Kinds, id \in SubjectIds, fail \in BOOLEAN :
          RecordViewCall(kind, id, fail)
    \/ \E period \in Periods, fail \in BOOLEAN : ResetStatsCall(period, fail)
    \/ \E period \in Periods, limit \in TopLimits, fail \in BOOLEAN :
          \/ GetTopMangaCall(period, limit, fail)
          \/ GetTopChaptersCall(period, limit, fail)

SpecStats == InitStats /\ [][NextStats]_vars

\* C21: a successful ResetStats(p) clears the ranking set of period p of
\* every subject kind and leaves every score of every other period unchanged
\* (ResetStats(daily) leaves weekly, monthly and all_time as they were); a
\* failed one changes nothing.
PeriodIsolation ==
    [][\A p \in Periods :
          /\ ResetStatsCall(p, FALSE)
                => \A kind \in Kinds :
                      /\ views'[<<kind, p>>] = Empty
                      /\ \A q \in Periods \ {p} :
                            views'[<<kind, q>>] = views[<<kind, q>>]
          /\ ResetStatsCall(p, TRUE) => views' = views]_vars

\* the daily sets were reset after a subject had been viewed: its daily score
\* is gone and its weekly, monthly and all_time scores are still there
PeriodIsolationWitness ==
    /\ family = "views"
    /\ Len(hist) > 1
    /\ hist[Len(hist)] = <<"daily", 0>>
    /\ \E kind \in Kinds, id \in SubjectIds :
          /\ Score(views[<<kind, "daily">>], id) = 0
          /\ \A q \in {"weekly", "monthly", "all_time"} :
                Score(views[<<kind, q>>], id) > 0

TopCalls == {"GetTopManga", "GetTopChapters"}
TopKind(op) == IF op = "GetTopManga" THEN "manga" ELSE "chapter"
TopId(op, row) == IF op = "GetTopManga" THEN row.manga_id ELSE row.chapter_id

\* C22: GetTopManga / GetTopChapters(period, limit) returns at most limit
\* rows, as many as there are scored subjects up to limit, each with the
\* subject's score of that period; no subject left out scores higher than
\* a listed one, the rows are in non-increasing order of score (equal scores
\* in the store's order, so the rows are a function of the store state), and
\* after 3 views of one manga and 1 view of another the weekly top 2 lists
\* them in that order with the scores 3 and 1.
TopOrdering ==
    (family = "views" /\ last.op \in TopCalls /\ last.res.ok) =>
       LET z == views[<<TopKind(last.op), last.key>>]
           rows == last.res.val
           limit == last.id
           n == Cardinality(DOMAIN z)
           listed == {TopId(last.op, rows[i]) : i \in 1..Len(rows)}
       IN /\ Len(rows) <= limit
          /\ Len(rows) = IF n < limit THEN n ELSE limit
          /\ listed \subseteq DOMAIN z
          /\ Cardinality(listed) = Len(rows)
          /\ listed = DOMAIN ZRevRangeWithScores(z, 0, limit - 1)
          /\ \A i \in 1..Len(rows) : rows[i].views = z[TopId(last.op, rows[i])]
          /\ \A id \in DOMAIN z \ listed : \A i \in 1..Len(rows) : z[id] <= rows[i].views
          /\ \A i, j \in 1..Len(rows) :
                i < j => \/ rows[i].views > rows[j].views
                         \/ /\ rows[i].views = rows[j].views
                            /\ TopId(last.op, rows[i]) > TopId(last.op, rows[j])
          /\ \A a, b \in SubjectIds :
                (/\ last.op = "GetTopManga" /\ limit = 2
                 /\ DOMAIN z = {a, b} /\ z[a] = 3 /\ z[b] = 1)
                   => rows = <<[manga_id |-> a, title |-> StatTitle, views |-> 3],
                               [manga_id |-> b, title |-> StatTitle, views |-> 1]>>

\* the weekly top 2 after 3 views of manga 1 and 1 view of manga 2
TopOrderingWitness ==
    /\ family = "views"
    /\ last.op = "GetTopManga" /\ last.key = "weekly" /\ last.id = 2
    /\ Recorded("manga", 1) = 3 /\ Recorded("manga", 2) = 1
    /\ last.res = Ok(<<[manga_id |-> 1, title |-> StatTitle, views |-> 3],
                       [manga_id |-> 2, title |-> StatTitle, views |-> 1]>>)

(* ===================== concurrent view recording ======================= *)
NumRecorders == 3
Recorders == 1..NumRecorders
PeriodOrder == <<"daily", "weekly", "monthly", "all_time">>
Idle == 0
Done == Len(PeriodOrder) + 1
NoRecord == [kind |-> "", id |-> 0, fail |-> FALSE]

\* faulty variant: the score is set to the increment (ZADD)
ZAdd(z, increment, member) == Put(z, member, increment)

\* ZINCRBY key increment member: one command, executed atomically
ZIncrBy(z, increment, member) == Put(z, member, Score(z, member) + increment)

\* a request starts recording a view of a subject, or fails before any
\* command was sent
BeginRecord(r, kind, id, fail) ==
    /\ family = "recording"
    /\ pc[r] = Idle
    /\ loc' = [loc EXCEPT ![r] = [kind |-> kind, id |-> id, fail |-> fail]]
    /\ pc' = [pc EXCEPT ![r] = IF fail THEN Done ELSE 1]
    /\ UNCHANGED <<family, authVars, storeVars, cache, views, last, hist>>

\* the request sends the ZINCRBY of its next period
IncrementStep(r) ==
    /\ family = "recording"
    /\ pc[r] \in 1..Len(PeriodOrder)
    /\ LET k == <<loc[r].kind, PeriodOrder[pc[r]]>>
       IN views' = [views EXCEPT ![k] = ZIncrBy(views[k], 1, loc[r].id)]
    /\ pc' = [pc EXCEPT ![r] = pc[r] + 1]
    /\ UNCHANGED <<family, authVars, storeVars, cache, last, loc, hist>>

InitRecording ==
    /\ family = "recording"
    /\ mangaDB = Empty /\ mangaOrder = <<>> /\ nextMangaId = 1
    /\ chapterDB = Empty /\ nextChapterId = 1
    /\ pageDB = Empty /\ nextPageId = 1
    /\ cache = Empty /\ views = NoViews /\ last = NoCall
    /\ pc = [r \in Recorders |-> Idle]
    /\ loc = [r \in Recorders |-> NoRecord]
    /\ hist = <<>>
    /\ AuthIdle

NextRecording ==
    \/ \E r \in Recorders, kind \in Kinds, id \in SubjectIds, fail \in BOOLEAN :
          BeginRecord(r, kind, id, fail)
    \/ \E r \in Recorders : IncrementStep(r)

SpecRecording == InitRecording /\ [][NextRecording]_vars

\* the requests that recorded a view of the subject without failing
Succeeded(kind, id) ==
    {r \in Recorders : pc[r] # Idle /\ loc[r] = [kind |-> kind, id |-> id, fail |-> FALSE]}

Answered(hit, text, row) == IF hit THEN text ELSE row

\* C24: when RecordMangaView / RecordChapterView / RecordPageView or
\* GetChapterViews returns an error, GetByID still returns the entity, and
\* the entity is the one it returns when analytics succeeds (the cached copy
\* on a hit, the stored row otherwise); the failed call records no view and a
\* failed GetChapterViews is reported as 0 views.
ViewErrorsNeverFailRead ==
    [][/\ \A id \in MangaIds, getFail, setFail, dbFail, anFail \in BOOLEAN :
            MangaGetByID(id, getFail, setFail, dbFail, anFail)
               => /\ anFail => last'.res.ok /\ views' = views
                  /\ last'.res.ok
                        => last'.res.val
                              = Answered(last'.hit,
                                    UnmarshalManga(CacheGet(cache, MangaKey(id), FALSE).val).val,
                                    MangaRepoGetByID(mangaDB, id, FALSE).val)
       /\ \A id \in ChapterIds, getFail, setFail, dbFail, vFail, anFail \in BOOLEAN :
            ChapterGetByID(id, getFail, setFail, dbFail, vFail, anFail)
               => /\ (vFail \/ anFail) => last'.res.ok
                  /\ anFail => views' = views
                  /\ last'.res.ok
                        => /\ last'.res.val.chapter
                                = Answered(last'.hit,
                                      UnmarshalChapter(CacheGet(cache, ChapterKey(id), FALSE).val).val,
                                      ChapterRepoGetByID(chapterDB, id, FALSE).val)
                           /\ last'.res.val.views
                                = IF vFail THEN 0
                                  ELSE Score(views[<<"chapter", "all_time">>], id)
       /\ \A id \in PageIds, getFail, setFail, anFail \in BOOLEAN, dbFailAt \in 0..2 :
            PageGetByID(id, getFail, setFail, dbFailAt, anFail)
               => /\ anFail => last'.res.ok /\ views' = views
                  /\ last'.res.ok
                        => last'.res.val
                              = Answered(last'.hit,
                                    UnmarshalPage(CacheGet(cache, PageKey(id), FALSE).val).val,
                                    PageRepoGetByID(pageDB, id, FALSE).val)]_vars

\* a chapter was read while the analytics repository failed: the read
\* succeeded and answered the stored chapter
ViewErrorsNeverFailReadWitness ==
    /\ last.op = "ChapterGetByID" /\ last.anfail
    /\ last.res.ok
    /\ last.id \in DOMAIN chapterDB
    /\ last.res.val.chapter = chapterDB[last.id]

(* ========================= error responses ============================= *)
NoErr == [kind |-> "nil"]
NoDetails == "null"

\* errors of other packages: the text of the driver or of the token library
CauseTexts == {"pq: connection refused", "signature is invalid"}
PlainError(text, err) == [kind |-> "plain", text |-> text, Err |-> err]
Causes == {PlainError(t, NoErr) : t \in CauseTexts}

AppError(code, message, details, statusCode, err) ==
    [kind |-> "app", Code |-> code, Message |-> message, Details |-> details,
     StatusCode |-> statusCode, Err |-> err]
NewInternalError(msg, err) == AppError("INTERNAL_ERROR", msg, NoDetails, 500, err)
NewValidationError(msg, details) == AppError("VALIDATION_ERROR", msg, details, 400, NoErr)
NewDatabaseError(msg, err) == AppError("DATABASE_ERROR", msg, NoDetails, 500, err)
NewMangaNotFoundError(id) ==
    AppError("MANGA_NOT_FOUND", "manga " \o ToString(id) \o " not found",
             NoDetails, 404, NoErr)
NewJWTInvalidError(err) ==
    AppError("JWT_INVALID", "invalid authorization token", NoDetails, 401, err)

\* the errors the handlers pass on: application errors with or without a
\* cause, foreign errors, and foreign errors wrapping an application error
AppErrors ==
    {NewInternalError("unexpected failure", e) : e \in Causes \cup {NoErr}}
       \cup {NewValidationError("title is empty", d) : d \in {NoDetails, "title"}}
       \cup {NewDatabaseError("manga query failed", e) : e \in Causes \cup {NoErr}}
       \cup {NewMangaNotFoundError(id) : id \in MangaIds}
       \cup {NewJWTInvalidError(e) : e \in Causes \cup {NoErr}}
RaisedErrors ==
    AppErrors \cup Causes \cup {PlainError(t, e) : t \in CauseTexts, e \in AppErrors}

RECURSIVE As(_)
\* errors.As(err, &appErr): the first *AppError of the chain
As(err) ==
    IF err.kind = "nil" THEN NoErr
    ELSE IF err.kind = "app" THEN err
    ELSE As(err.Err)

RECURSIVE ErrorText(_)
\* err.Error()
ErrorText(err) ==
    IF err.kind = "app"
    THEN IF err.Err.kind = "nil" THEN err.Message
         ELSE err.Message \o ": " \o ErrorText(err.Err)
    ELSE IF err.Err.kind = "nil" THEN err.text
    ELSE err.text \o ": " \o ErrorText(err.Err)

GenericMessage == "internal server error"
ErrorResponse(code, message, details) ==
    [Code |-> code, Message |-> message, Details |-> details]
Response(statusCode, errorResp) ==
    [status |-> statusCode, body |-> [Success |-> FALSE, Error |-> errorResp]]

\* faulty variant: the message of the response is err.Error()
ResponseErrorText(err) ==
    LET appErr == As(err)
    IN IF appErr.kind = "app"
       THEN Response(appErr.StatusCode,
                     ErrorResponse(appErr.Code, ErrorText(appErr), appErr.Details))
       ELSE Response(500, ErrorResponse("INTERNAL_ERROR", ErrorText(err), NoDetails))

\* response.Error: what is written to the client
ResponseError(err) ==
    LET appErr == As(err)
    IN IF appErr.kind = "app"
       THEN Response(appErr.StatusCode,
                     ErrorResponse(appErr.Code, appErr.Message, appErr.Details))
       ELSE Response(500, ErrorResponse("INTERNAL_ERROR", GenericMessage, NoDetails))

\* a handler ends with an error
Raise(err) ==
    /\ family = "errors"
    /\ loc' = err
    /\ UNCHANGED <<family, storeVars, cache, views, last, pc, hist, authVars>>

\* the handler passes its error to response.Error
SendError ==
    /\ family = "errors"
    /\ loc # NoErr
    /\ resp' = ResponseError(loc)
    /\ UNCHANGED <<family, storeVars, cache, views, last, raceVars, jwtService,
                   userDB, now, held>>

InitErrors ==
    /\ family = "errors"
    /\ mangaDB = Empty /\ mangaOrder = <<>> /\ nextMangaId = 1
    /\ chapterDB = Empty /\ nextChapterId = 1
    /\ pageDB = Empty /\ nextPageId = 1
    /\ cache = Empty /\ views = NoViews /\ last = NoCall
    /\ pc = <<>> /\ loc = NoErr /\ hist = <<>>
    /\ jwtService = NoService /\ userDB = Empty /\ now = 0 /\ held = {}
    /\ resp = Response(0, ErrorResponse("", "", NoDetails))

NextErrors ==
    \/ \E err \in RaisedErrors : Raise(err)
    \/ SendError

SpecErrors == InitErrors /\ [][NextErrors]_vars

\* every text a wrapped cause contributes to err.Error()
RECURSIVE CauseTextsOf(_)
CauseTextsOf(err) ==
    IF err.kind = "nil" THEN {}
    ELSE IF err.kind = "app" THEN CauseTextsOf(err.Err)
    ELSE {err.text} \cup CauseTextsOf(err.Err)

\* the same application error with another wrapped cause
WithCause(err, cause) == [err EXCEPT !.Err = cause]

\* C25: the response written by response.Error holds only the code, the
\* message and the details of the application error in the chain; the text
\* of a wrapped cause appears nowhere in it; an error without an application
\* error in its chain is answered 500 INTERNAL_ERROR with the fixed generic
\* message; and application errors that differ only in their wrapped cause
\* get identical responses.
NoLeakOfCause ==
    [][SendError =>
          LET appErr == As(loc)
              error == resp'.body.Error
          IN /\ DOMAIN resp' = {"status", "body"}
             /\ DOMAIN resp'.body = {"Success", "Error"}
             /\ DOMAIN error = {"Code", "Message", "Details"}
             /\ ~resp'.body.Success
             /\ \A t \in CauseTextsOf(loc) \cup CauseTexts :
                   /\ error.Message # t /\ error.Details # t /\ error.Code # t
                   /\ error.Message # ErrorText(loc) \/ CauseTextsOf(loc) = {}
             /\ IF appErr.kind = "app"
                THEN /\ error = ErrorResponse(appErr.Code, appErr.Message, appErr.Details)
                     /\ resp'.status = appErr.StatusCode
                     /\ \A cause \in Causes \cup {NoErr} :
                           ResponseError(WithCause(appErr, cause)) = resp'
                ELSE /\ error = ErrorResponse("INTERNAL_ERROR", GenericMessage, NoDetails)
                     /\ resp'.status = 500]_vars

\* a database error wrapping the driver's error was answered, and so was an
\* error that is not an application error
NoLeakOfCauseWitness ==
    /\ family = "errors"
    /\ \/ /\ loc.kind = "app" /\ loc.Code = "DATABASE_ERROR"
          /\ loc.Err \in Causes
          /\ resp = Response(500, ErrorResponse("DATABASE_ERROR", loc.Message, NoDetails))
       \/ /\ loc \in Causes
          /\ resp = Response(500, ErrorResponse("INTERNAL_ERROR", GenericMessage, NoDetails))

(* ------------------------- token failure kinds ------------------------- *)
\* why a presented token fails: malformed, signed by a method that is not
\* HMAC, signed with another key, or past its expiry
FailureKind(tok, secret, t) ==
    IF tok.alg = "" THEN "malformed"
    ELSE IF tok.alg # "HS256" THEN "method"
    ELSE IF tok.sig # secret THEN "signature"
    ELSE IF ~(t < tok.exp) THEN "expired"
    ELSE "none"

Presented == held \cup Forged

\* C26: a malformed token, a token with a signing method that is not HMAC,
\* an expired token and a token with a signature mismatch are each reported
\* by RefreshToken and by the Authentication middleware with an error code
\* of their own: tokens that fail for different reasons get different codes.
TokenFailureKindsDistinct ==
    family = "auth" =>
       \A t1, t2 \in Presented :
          /\ LET k1 == FailureKind(t1, jwtService.refreshSecret, now)
                 k2 == FailureKind(t2, jwtService.refreshSecret, now)
             IN (k1 # "none" /\ k2 # "none" /\ k1 # k2)
                   => RefreshFailure(ValidateRefreshToken(jwtService, t1, now).err).code
                         # RefreshFailure(ValidateRefreshToken(jwtService, t2, now).err).code
          /\ LET k1 == FailureKind(t1, jwtService.accessSecret, now)
                 k2 == FailureKind(t2, jwtService.accessSecret, now)
             IN (k1 # "none" /\ k2 # "none" /\ k1 # k2)
                   => Authentication(jwtService, <<"Bearer", t1>>, now).code
                         # Authentication(jwtService, <<"Bearer", t2>>, now).code

(* ============================ key builders ============================= *)
MaxBuilt == 2
KeyIds == {1, 2, 11, 12}
KeyLimits == {1, 11}
KeyOffsets == {0, 1, 11}
KeyPeriods == Periods \cup {"daily:1", "1"}

\* what a key is built from
Built(kind, type, id, limit, offset, period) ==
    [kind |-> kind, type |-> type, id |-> id, limit |-> limit,
     offset |-> offset, period |-> period]

KeyInputs ==
    {Built("item", t, id, 0, 0, "") : t \in {"manga", "chapter", "page"}, id \in KeyIds}
       \cup {Built("nested", t, id, 0, 0, "") : t \in {"manga", "chapter"}, id \in KeyIds}
       \cup {Built("list", "manga", 0, l, o, "") : l \in KeyLimits, o \in KeyOffsets}
       \cup {Built("popular", "manga", 0, l, 0, p) : l \in KeyLimits, p \in KeyPeriods}

\* fmt.Sprintf of the use case that caches the input
KeyOf(b) ==
    CASE b.kind = "item" /\ b.type = "manga" -> MangaKey(b.id)
      [] b.kind = "item" /\ b.type = "chapter" -> ChapterKey(b.id)
      [] b.kind = "item" /\ b.type = "page" -> PageKey(b.id)
      [] b.kind = "nested" /\ b.type = "manga" -> MangaChaptersKey(b.id)
      [] b.kind = "nested" /\ b.type = "chapter" -> ChapterPagesKey(b.id)
      [] b.kind = "list" -> MangaListKey(b.limit, b.offset)
      [] b.kind = "popular" -> PopularKey(b.period, b.limit)

\* a use case builds the key of an input; the keyspace remembers what every
\* key was built from
BuildKey(b) ==
    LET key == KeyOf(b)
        before == IF key \in DOMAIN cache THEN cache[key] ELSE {}
    IN /\ family = "keys"
       /\ b \notin before
       /\ Cardinality(UNION {cache[k] : k \in DOMAIN cache}) < MaxBuilt
       /\ cache' = Put(cache, key, before \cup {b})
       /\ UNCHANGED <<family, authVars, storeVars, views, last, raceVars>>

InitKeys ==
    /\ family = "keys"
    /\ mangaDB = Empty /\ mangaOrder = <<>> /\ nextMangaId = 1
    /\ chapterDB = Empty /\ nextChapterId = 1
    /\ pageDB = Empty /\ nextPageId = 1
    /\ cache = Empty /\ views = NoViews /\ last = NoCall
    /\ pc = <<>> /\ loc = <<>> /\ hist = <<>>
    /\ AuthIdle

NextKeys == \E b \in KeyInputs : BuildKey(b)

SpecKeys == InitKeys /\ [][NextKeys]_vars

\* C27: the key builders are injective: distinct (entity type, id) pairs,
\* distinct (parent, child collection) pairs, distinct (limit, offset) pairs
\* and distinct (period, limit) pairs get distinct keys, and a key of one
\* family (single item, nested list, paginated list, leaderboard) is never a
\* key of another: every key was built from exactly one input.
CacheKeysInjective ==
    family = "keys" =>
       /\ \A key \in DOMAIN cache : Cardinality(cache[key]) = 1
       /\ \A a, b \in KeyInputs : a # b => KeyOf(a) # KeyOf(b)

\* the keys of manga 11 and of the chapters of manga 1 were both built
CacheKeysInjectiveWitness ==
    /\ family = "keys"
    /\ DOMAIN cache = {MangaKey(11), MangaChaptersKey(1)}
    /\ cache[MangaKey(11)] = {Built("item", "manga", 11, 0, 0, "")}
    /\ cache[MangaChaptersKey(1)] = {Built("nested", "manga", 1, 0, 0, "")}

(* ------------------------ chapters of a manga -------------------------- *)
\* C28: MangaUseCase.GetChapters(mangaID), behind GET /manga/{id}/chapters,
\* returns exactly the chapters stored for the manga when the manga exists
\* and the manga-not-found error when it does not.
GetChaptersReturnsStored ==
    [][\A mangaID \in 1..3 :
          MangaGetChapters(mangaID, FALSE)
             => last'.res = IF mangaID \in DOMAIN mangaDB
                            THEN ChapterRepoListByManga(chapterDB, mangaID, FALSE)
                            ELSE NotFoundError("MANGA")]_vars

(* ----------------------------- denied roles ---------------------------- *)
\* C29: when the role in the request context is not one of the allowed
\* roles the request is answered 403 FORBIDDEN, and when the context carries
\* no role it is answered 401 UNAUTHORIZED; in particular a valid token of
\* role "user" gets 403 FORBIDDEN on every admin route.
DeniedRoleResponse ==
    family = "auth" =>
       /\ \A roles \in SUBSET Roles, ctx \in Contexts :
             LET d == Recovery(RequireRole(roles, ctx))
             IN /\ (ctx.present /\ ctx.user_role \notin roles)
                      => d.status = 403 /\ d.code = "FORBIDDEN"
                /\ ~ctx.present => d.status = 401 /\ d.code = "UNAUTHORIZED"
       /\ \A route \in AdminRoutes, header \in Headers :
             (BearerOfValidToken(header) /\ header[2].Role # "admin")
                => /\ Served(route, header).status = 403
                   /\ Served(route, header).code = "FORBIDDEN"

(* ---------------------- invalidation after a write --------------------- *)
\* the single-item key of the entity the latest Update was about
UpdatedItemKey ==
    CASE last.op = "MangaUpdate" -> MangaKey(last.id)
      [] last.op = "ChapterUpdate" -> ChapterKey(last.id)
      [] last.op = "PageUpdate" -> PageKey(last.id)

\* C30: whenever the store write of a manga, chapter or page Update has
\* committed, the single-item cache key of the entity is gone when the
\* operation returns, also when it returns the error of the follow-up
\* repository GetByID (no cache call of the operation having failed).
CommittedUpdateInvalidates ==
    (/\ last.op \in {"MangaUpdate", "ChapterUpdate", "PageUpdate"}
     /\ last.commit /\ ~last.cfail)
        => UpdatedItemKey \notin DOMAIN cache

(* --------------------- reads after a cascading delete ------------------ *)
\* SpecCascade: one manga with one chapter with one page (the foreign keys
\* chapters.manga_id and pages.chapter_id are ON DELETE CASCADE); the
\* requests are the item reads of the chapter and the page and the deletes
\* of the manga and the chapter.
InitCascade ==
    /\ family = "cascade"
    /\ mangaDB = OneManga
    /\ mangaOrder = <<1>>
    /\ nextMangaId = 2
    /\ chapterDB = [i \in {1} |-> [id |-> 1, manga_id |-> 1, number |-> 1]]
    /\ nextChapterId = 2
    /\ pageDB = [i \in {1} |-> [id |-> 1, chapter_id |-> 1, number |-> 1]]
    /\ nextPageId = 2
    /\ cache = Empty
    /\ views = NoViews
    /\ last = NoCall
    /\ pc = <<>>
    /\ loc = <<>>
    /\ hist = <<>>
    /\ AuthIdle

NextCascade ==
    \/ \E id \in ChapterIds, getFail, setFail, dbFail, vFail, anFail \in BOOLEAN :
          ChapterGetByID(id, getFail, setFail, dbFail, vFail, anFail)
    \/ \E id \in PageIds, getFail, setFail, anFail \in BOOLEAN, dbFailAt \in 0..2 :
          PageGetByID(id, getFail, setFail, dbFailAt, anFail)
    \/ \E id \in MangaIds, dbFailAt \in 0..2, delFails \in SUBSET {1, 2} :
          MangaDelete(id, dbFailAt, delFails)
    \/ \E id \in ChapterIds, dbFailAt \in 0..2, delFails \in SUBSET {1, 2} :
          ChapterDelete(id, dbFailAt, delFails)
    \/ \E key \in DOMAIN cache : Expire(key)

SpecCascade == InitCascade /\ [][NextCascade]_vars

\* C31: once the manga is deleted, GetByID of its chapter and of the page of
\* that chapter does not succeed; once the chapter is deleted (by its own
\* Delete or with the manga), GetByID of its page does not succeed: no
\* cached copy of a cascade-deleted row is returned.
NoReadOfCascadeDeleted ==
    family = "cascade" =>
       /\ (last.op = "ChapterGetByID" /\ mangaDB = Empty) => ~last.res.ok
       /\ (last.op = "PageGetByID" /\ chapterDB = Empty) => ~last.res.ok

(* ---------------------- leaderboard after a reset ---------------------- *)
\* SpecLeaderboard: one manga is read (each read records a view), the
\* leaderboard of a period is asked through GetPopular, and the ranking
\* sets of a period are reset.

\* one request that resets the ranking sets of a period; the ghost keeps
\* the period
ResetStatsRequest(period, fail) ==
    /\ family = "leaderboard"
    /\ views' = ResetStats(views, period, fail)
    /\ last' = [NoCall EXCEPT !.op = "ResetStats", !.key = period,
                              !.res = IF fail THEN DatabaseError ELSE Ok(NoVal),
                              !.dbfail = fail]
    /\ UNCHANGED <<family, authVars, storeVars, cache, raceVars>>

InitLeaderboard ==
    /\ family = "leaderboard"
    /\ mangaDB = OneManga
    /\ mangaOrder = <<1>>
    /\ nextMangaId = 2
    /\ chapterDB = Empty /\ nextChapterId = 1
    /\ pageDB = Empty /\ nextPageId = 1
    /\ cache = Empty
    /\ views = NoViews
    /\ last = NoCall
    /\ pc = <<>> /\ loc = <<>> /\ hist = <<>>
    /\ AuthIdle

NextLeaderboard ==
    \/ \E id \in MangaIds, getFail, setFail, dbFail, anFail \in BOOLEAN :
          MangaGetByID(id, getFail, setFail, dbFail, anFail)
    \/ \E period \in Periods, limit \in PopLimits,
          getFail, setFail, anFail \in BOOLEAN :
          GetPopular(period, limit, getFail, setFail, anFail)
    \/ \E period \in Periods, fail \in BOOLEAN : ResetStatsRequest(period, fail)

SpecLeaderboard == InitLeaderboard /\ [][NextLeaderboard]_vars

\* C32: the GetPopular(period, limit) that follows a successful
\* ResetStats(period) returns, when it succeeds, the ranking of the period as
\* it is after the reset, not the rows cached under
\* "manga:popular:<period>:<limit>" before the reset.
LeaderboardFollowsReset ==
    [][\A period \in Periods, limit \in PopLimits :
          (/\ last.op = "ResetStats" /\ last.res.ok /\ last.key = period
           /\ last'.op = "GetPopular" /\ last'.key = PopularKey(period, limit)
           /\ last'.res.ok)
             => last'.res = GetTopManga(views', mangaDB', period, limit, FALSE)]_vars

(* ------------------------ undecodable cache values --------------------- *)
\* SpecDecode: the requests of Spec, and a cached value that is replaced by
\* a text json.Unmarshal rejects (a value left under the key by a writer
\* with another encoding).
Corrupted == "{"

Corrupt(key) ==
    /\ key \in DOMAIN cache
    /\ cache[key].val # Corrupted
    /\ cache' = [cache EXCEPT ![key].val = Corrupted]
    /\ last' = [NoCall EXCEPT !.op = "Corrupt", !.key = key]
    /\ UNCHANGED <<family, authVars, storeVars, views, raceVars>>

NextDecode ==
    \/ Next
    \/ \E key \in DOMAIN cache : Corrupt(key)

SpecDecode == Init /\ [][NextDecode]_vars

\* C33: a read whose key holds a value that cannot be decoded is not a hit:
\* it answers what the store answers, the decode error is not returned, and
\* when it succeeds it has called the loader and Set the key, which then
\* (the cache calls succeeding) holds the encoding of the value returned
\* with the time to live of its kind of key.
DecodeFailureIsMiss ==
    [][(/\ last.op = "Corrupt"
        /\ last'.op \in CachedReads /\ last'.key = last.key)
          => /\ ~last'.hit
             /\ AnsweredFromStore'
             /\ last'.res.ok =>
                  /\ last'.loader
                  /\ last'.sets = {last.key}
                  /\ ~last'.cfail =>
                       /\ last.key \in DOMAIN cache'
                       /\ cache'[last.key].ttl \in TimeToLive(last.key)
                       /\ Cached(last'.op, cache'[last.key].val).ok
                       /\ Cached(last'.op, cache'[last.key].val).val
                             = Returned(last').val]_vars

\* an undecodable "manga:list:1:0" was read, the list came from the store
\* and the key holds its encoding again
DecodeFailureIsMissWitness ==
    /\ last.op = "MangaList" /\ last.had /\ ~last.hit /\ last.loader
    /\ ~last.cfail /\ last.res.ok /\ Len(last.res.val) = 1
    /\ last.key = MangaListKey(1, 0)
    /\ cache[last.key].val = MarshalMangaList(last.res.val)

(* ----------------------- one view for each read ------------------------ *)
\* the ranking sets after one more view of the subject in every period
OneMoreView(v, kind, id) ==
    [k \in DOMAIN v |->
       IF k[1] = kind
       THEN [x \in (DOMAIN v[k]) \cup {id} |->
               IF x = id THEN Score(v[k], id) + 1 ELSE v[k][x]]
       ELSE v[k]]

\* C34: a manga or chapter GetByID that returns an error records no view;
\* one that succeeds, on a cache hit as on a miss, makes one RecordMangaView
\* or RecordChapterView call for its id: with the analytics calls succeeding
\* every score of the id, the all_time score included, grows by exactly one
\* and nothing else changes, and a failed call leaves the scores as they
\* were. Hence with a healthy analytics store the all_time score of a manga
\* is the number of its successful GetByID calls.
OneViewPerSuccessfulRead ==
    [][\A kind \in {"manga", "chapter"} :
          last'.op = GetByIDOf(kind) =>
             /\ ~last'.res.ok => views' = views
             /\ (last'.res.ok /\ ~last'.anfail)
                   => views' = OneMoreView(views, kind, last'.id)
             /\ (last'.res.ok /\ last'.anfail)
                   => views' \in {views, OneMoreView(views, kind, last'.id)}
             /\ (last'.res.ok /\ last'.anfail /\ kind = "manga")
                   => views' = views]_vars

\* a cache hit of a manga recorded the only view the manga has
OneViewPerSuccessfulReadWitness ==
    /\ last.op = "MangaGetByID" /\ last.hit /\ last.res.ok /\ ~last.anfail
    /\ \A p \in Periods : Score(views[<<"manga", p>>], last.id) = 1

(* ========================= registration, profile ======================= *)
\* SpecUsers: Register and UpdateProfile requests, one after another, over
\* the table users (username and email are UNIQUE); every repository call
\* of a request can fail with a database error. Texts are sequences of
\* characters, so that the patterns of the use case can be matched.
Letters == {"a", "b", "c", "o", "u"}
Digits == {"1", "2"}

\* ^[a-zA-Z0-9_]+$
MatchUsername(s) ==
    /\ Len(s) > 0
    /\ \A k \in DOMAIN s : s[k] \in Letters \cup Digits \cup {"_"}

\* ^[a-zA-Z0-9._%+\-]+@[a-zA-Z0-9.\-]+\.[a-zA-Z]{2,}$
MatchEmail(s) ==
    \E i, j \in DOMAIN s :
       /\ 1 < i /\ i + 1 < j /\ j + 2 <= Len(s)
       /\ s[i] = "@" /\ s[j] = "."
       /\ \A k \in 1..(i - 1) :
             s[k] \in Letters \cup Digits \cup {".", "_", "%", "+", "-"}
       /\ \A k \in (i + 1)..(j - 1) : s[k] \in Letters \cup Digits \cup {".", "-"}
       /\ \A k \in (j + 1)..Len(s) : s[k] \in Letters

MinPasswordLen == 6

Usernames == {<<>>, <<"u", "1">>, <<"u", "2">>, <<"u", "!">>}
Emails ==
    {<<>>, <<"a", "@", "b", ".", "c", "o">>, <<"c", "@", "b", ".", "c", "o">>,
     <<"a", "@", "b">>}
NewPasswords ==
    {<<>>, <<"a", "b", "c", "1", "2">>, <<"a", "b", "c", "1", "2", "_">>}

\* bcrypt.GenerateFromPassword: the hash is not the password
GenerateFromPassword(password) == <<"$", "2", "a", "$">> \o password

NoUser ==
    [id |-> 0, username |-> <<>>, email |-> <<>>, role |-> "", password |-> <<>>]

DriverError == PlainError("pq: connection refused", NoErr)
NewUserNotFoundError == AppError("USER_NOT_FOUND", "user not found", NoDetails, 404, NoErr)
NewUserExistsError ==
    AppError("USER_ALREADY_EXISTS", "user already exists", NoDetails, 409, NoErr)
NewConflictError(msg, err) == AppError("CONFLICT", msg, NoDetails, 409, err)

\* SELECT ... FROM users WHERE <column> = $1
UsersSelect(db, rows, fail) ==
    IF fail THEN [user |-> NoUser, err |-> NewDatabaseError("user query failed", DriverError)]
    ELSE IF rows = {} THEN [user |-> NoUser, err |-> NewUserNotFoundError]
    ELSE [user |-> db[CHOOSE i \in rows : TRUE], err |-> NoErr]

UsersGetByID(db, id, fail) == UsersSelect(db, {i \in DOMAIN db : i = id}, fail)
UsersGetByUsername(db, username, fail) ==
    UsersSelect(db, {i \in DOMAIN db : db[i].username = username}, fail)
UsersGetByEmail(db, email, fail) ==
    UsersSelect(db, {i \in DOMAIN db : db[i].email = email}, fail)

\* the error of a statement that would store the row under the id, if any
UniqueViolation(db, id, user) ==
    IF \E i \in DOMAIN db : i # id /\ db[i].username = user.username
    THEN NewUserExistsError
    ELSE IF \E i \in DOMAIN db : i # id /\ db[i].email = user.email
    THEN NewConflictError("email already used", NoErr)
    ELSE NoErr

\* INSERT INTO users ... RETURNING id
UsersCreate(db, user, fail) ==
    LET id == Cardinality(DOMAIN db) + 1
        dup == UniqueViolation(db, id, user)
    IN IF fail
       THEN [db |-> db, id |-> 0,
             err |-> NewDatabaseError("user insert failed", DriverError)]
       ELSE IF dup # NoErr THEN [db |-> db, id |-> 0, err |-> dup]
       ELSE [db |-> Put(db, id, [user EXCEPT !.id = id]), id |-> id, err |-> NoErr]

\* faulty variant: the statement stores the role of a new user
UsersUpdateAsNew(db, user, fail) ==
    IF fail \/ user.id \notin DOMAIN db THEN [db |-> db, err |-> NoErr]
    ELSE [db |-> [db EXCEPT ![user.id] = [user EXCEPT !.role = "user"]],
          err |-> NoErr]

\* UPDATE users SET username, email, password_hash, role WHERE id = $5
UsersUpdate(db, user, fail) ==
    LET dup == UniqueViolation(db, user.id, user)
    IN IF fail
       THEN [db |-> db, err |-> NewDatabaseError("user update failed", DriverError)]
       ELSE IF user.id \notin DOMAIN db THEN [db |-> db, err |-> NewUserNotFoundError]
       ELSE IF dup # NoErr THEN [db |-> db, err |-> dup]
       ELSE [db |-> [db EXCEPT ![user.id] = user], err |-> NoErr]

\* the outcome of a request: the table, what is returned, the calls made
Outcome(db, user, err, calls) ==
    [db |-> db, user |-> user, err |-> err, calls |-> calls]

\* the lookup found nothing: err # nil and errors.As(err, &appError) holds
LookupPassed(err) == As(err).kind = "app"

\* userUseCase.Register
RegisterOutcome(db, username, email, password, failAt) ==
    LET r1 == UsersGetByUsername(db, username, failAt = 1)
        r2 == UsersGetByEmail(db, email, failAt = 2)
        user == [id |-> 0, username |-> username, email |-> email,
                 password |-> GenerateFromPassword(password), role |-> "user"]
        r3 == UsersCreate(db, user, failAt = 3)
        r4 == UsersGetByID(r3.db, r3.id, failAt = 4)
        invalid == NewValidationError("invalid registration", NoDetails)
    IN IF \/ username = <<>> \/ email = <<>> \/ password = <<>>
          \/ ~MatchUsername(username) \/ ~MatchEmail(email)
          \/ Len(password) < MinPasswordLen
       THEN Outcome(db, NoUser, invalid, <<>>)
       ELSE IF r1.err = NoErr
       THEN Outcome(db, NoUser, NewUserExistsError, <<"GetByUsername">>)
       ELSE IF ~LookupPassed(r1.err)
       THEN Outcome(db, NoUser, r1.err, <<"GetByUsername">>)
       ELSE IF r2.err = NoErr
       THEN Outcome(db, NoUser, NewConflictError("email already used", NoErr),
                    <<"GetByUsername", "GetByEmail">>)
       ELSE IF ~LookupPassed(r2.err)
       THEN Outcome(db, NoUser, r2.err, <<"GetByUsername", "GetByEmail">>)
       ELSE IF r3.err # NoErr
       THEN Outcome(db, NoUser, r3.err, <<"GetByUsername", "GetByEmail", "Create">>)
       ELSE IF r4.err # NoErr
       THEN Outcome(r3.db, NoUser, r4.err,
                    <<"GetByUsername", "GetByEmail", "Create", "GetByID">>)
       ELSE Outcome(r3.db, [r4.user EXCEPT !.password = <<>>], NoErr,
                    <<"GetByUsername", "GetByEmail", "Create", "GetByID">>)

\* userUseCase.UpdateProfile
UpdateProfileOutcome(db, id, username, email, failAt) ==
    LET r1 == UsersGetByID(db, id, failAt = 1)
        currentUser == [r1.user EXCEPT !.username = username, !.email = email]
        r2 == UsersUpdate(db, currentUser, failAt = 2)
        r3 == UsersGetByID(r2.db, id, failAt = 3)
        invalid == NewValidationError("invalid profile", NoDetails)
    IN IF r1.err # NoErr THEN Outcome(db, NoUser, r1.err, <<"GetByID">>)
       ELSE IF ~MatchUsername(username) \/ ~MatchEmail(email)
       THEN Outcome(db, NoUser, invalid, <<"GetByID">>)
       ELSE IF r2.err # NoErr
       THEN Outcome(db, NoUser, r2.err, <<"GetByID", "Update">>)
       ELSE IF r3.err # NoErr
       THEN Outcome(r2.db, NoUser, r3.err, <<"GetByID", "Update", "GetByID">>)
       ELSE Outcome(r2.db, [r3.user EXCEPT !.password = <<>>], NoErr,
                    <<"GetByID", "Update", "GetByID">>)

\* the record of a request on users: the call that failed (0: none), the
\* repository calls made, and what was returned
UserCall(op, id, failAt, out) ==
    [op |-> op, id |-> id, failAt |-> failAt, calls |-> out.calls,
     user |-> out.user, err |-> out.err]

Register(username, email, password, failAt) ==
    LET out == RegisterOutcome(userDB, username, email, password, failAt)
    IN /\ family = "users"
       /\ failAt <= Len(out.calls)
       /\ userDB' = out.db
       /\ last' = UserCall("Register", 0, failAt, out)
       /\ UNCHANGED <<family, storeVars, cache, views, raceVars, jwtService,
                      now, held, resp>>

UpdateProfile(id, username, email, failAt) ==
    LET out == UpdateProfileOutcome(userDB, id, username, email, failAt)
    IN /\ family = "users"
       /\ failAt <= Len(out.calls)
       /\ userDB' = out.db
       /\ last' = UserCall("UpdateProfile", id, failAt, out)
       /\ UNCHANGED <<family, storeVars, cache, views, raceVars, jwtService,
                      now, held, resp>>

MaxUsers == 3

InitUsers ==
    /\ family = "users"
    /\ mangaDB = Empty /\ mangaOrder = <<>> /\ nextMangaId = 1
    /\ chapterDB = Empty /\ nextChapterId = 1
    /\ pageDB = Empty /\ nextPageId = 1
    /\ cache = Empty /\ views = NoViews /\ last = NoCall
    /\ pc = <<>> /\ loc = <<>> /\ hist = <<>>
    /\ jwtService = NoService /\ now = 0 /\ held = {} /\ resp = NoResp
    /\ userDB = [i \in {1} |->
                   [id |-> 1, username |-> <<"u", "1">>,
                    email |-> <<"a", "@", "b", ".", "c", "o">>, role |-> "admin",
                    password |-> GenerateFromPassword(<<"a", "b", "c", "1", "2", "_">>)]]

NextUsers ==
    \/ \E username \in Usernames, email \in Emails, password \in NewPasswords,
          failAt \in 0..4 : Register(username, email, password, failAt)
    \/ \E id \in 1..MaxUsers, username \in Usernames, email \in Emails,
          failAt \in 0..3 : UpdateProfile(id, username, email, failAt)

SpecUsers == InitUsers /\ [][NextUsers]_vars

\* C35: Register creates a user only if the lookup by username and the
\* lookup by email both reported user-not-found, and when either lookup
\* fails with a database error Register returns that error and creates no
\* user.
RegisterChecksUniqueness ==
    [][last'.op = "Register" =>
          /\ userDB' # userDB => last'.failAt \notin {1, 2}
          /\ (last'.failAt \in {1, 2})
                => /\ userDB' = userDB
                   /\ last'.err = NewDatabaseError("user query failed", DriverError)]_vars

(* --------------------------- profile updates --------------------------- *)
\* the repository calls of a request include the UPDATE
Updates(l) == \E k \in DOMAIN l.calls : l.calls[k] = "Update"

GenreNames == {"g", "h"}
MaxGenreManga == 2
GenreInputs == SeqsUpTo(GenreNames, 2)

\* SELECT id FROM genres WHERE name = $1, then INSERT INTO genres: the id
\* found is returned; sql.ErrNoRows is returned as a database error; after
\* any other error of the SELECT the genre is inserted
getOrCreateGenre(t, genre, selFail, insFail) ==
    IF ~selFail /\ genre \in DOMAIN t.genres
    THEN [t |-> t, id |-> t.genres[genre], ok |-> TRUE]
    ELSE IF ~selFail THEN [t |-> t, id |-> 0, ok |-> FALSE]
    ELSE IF insFail \/ genre \in DOMAIN t.genres THEN [t |-> t, id |-> 0, ok |-> FALSE]
    ELSE LET id == Cardinality(DOMAIN t.genres) + 1
         IN [t |-> [t EXCEPT !.genres = Put(t.genres, genre, id)],
             id |-> id, ok |-> TRUE]

\* INSERT INTO manga_genres ... ON CONFLICT DO NOTHING, for the id obtained
AddGenreToManga(t, mangaID, genre, selFail, insFail) ==
    LET r == getOrCreateGenre(t, genre, selFail, insFail)
    IN IF ~r.ok THEN t
       ELSE [r.t EXCEPT !.manga_genres = r.t.manga_genres \cup {<<mangaID, r.id>>}]

\* DELETE FROM manga_genres for the id of the name, nothing if there is none
RemoveGenreFromManga(t, mangaID, genre) ==
    IF genre \notin DOMAIN t.genres THEN t
    ELSE [t EXCEPT !.manga_genres = t.manga_genres \ {<<mangaID, t.genres[genre]>>}]

\* the names of the genres linked to the manga (ORDER BY g.name)
GetGenresForManga(t, mangaID) ==
    {n \in DOMAIN t.genres : <<mangaID, t.genres[n]>> \in t.manga_genres}

RECURSIVE AddGenres(_, _, _, _, _)
\* for _, genre := range ...: AddGenreToManga, an error is logged
AddGenres(t, mangaID, genres, selFail, insFail) ==
    IF genres = <<>> THEN t
    ELSE AddGenres(AddGenreToManga(t, mangaID, Head(genres), selFail, insFail),
                   mangaID, Tail(genres), selFail, insFail)

RECURSIVE RemoveGenres(_, _, _)
RemoveGenres(t, mangaID, names) ==
    IF names = {} THEN t
    ELSE LET n == CHOOSE n \in names : TRUE
         IN RemoveGenres(RemoveGenreFromManga(t, mangaID, n), mangaID, names \ {n})

\* the genres of the list that are not among the names
Missing(genres, names) == SelectSeq(genres, LAMBDA n : n \notin names)

GenreCall(op, id, genres, fail) ==
    [op |-> op, id |-> id, genres |-> genres, fail |-> fail]

\* MangaRepository.Create: the row, then a link for every genre of the list
MangaRepositoryCreate(title, genres, selFail, insFail) ==
    LET id == nextMangaId
    IN /\ family = "genres"
       /\ nextMangaId <= MaxGenreManga
       /\ insFail => selFail
       /\ mangaDB' = Put(mangaDB, id, [id |-> id, title |-> title])
       /\ nextMangaId' = nextMangaId + 1
       /\ loc' = AddGenres(loc, id, genres, selFail, insFail)
       /\ last' = GenreCall("Create", id, genres, selFail)
       /\ UNCHANGED <<family, mangaOrder, chapterDB, nextChapterId, pageDB,
                      nextPageId, cache, views, pc, hist, authVars>>

\* MangaRepository.Update: the row, then the links of the genres that are
\* new are added and the links of the genres no longer listed are removed
MangaRepositoryUpdate(id, title, genres, selFail, insFail) ==
    LET currentGenres == GetGenresForManga(loc, id)
        genresToAdd == Missing(genres, currentGenres)
        genresToRemove == currentGenres \ {genres[k] : k \in DOMAIN genres}
    IN /\ family = "genres"
       /\ id \in DOMAIN mangaDB
       /\ insFail => selFail
       /\ mangaDB' = [mangaDB EXCEPT ![id].title = title]
       /\ loc' = RemoveGenres(AddGenres(loc, id, genresToAdd, selFail, insFail),
                              id, genresToRemove)
       /\ last' = GenreCall("Update", id, genres, selFail)
       /\ UNCHANGED <<family, mangaOrder, nextMangaId, chapterDB, nextChapterId,
                      pageDB, nextPageId, cache, views, pc, hist, authVars>>

InitGenres ==
    /\ family = "genres"
    /\ mangaDB = Empty /\ mangaOrder = <<>> /\ nextMangaId = 1
    /\ chapterDB = Empty /\ nextChapterId = 1
    /\ pageDB = Empty /\ nextPageId = 1
    /\ cache = Empty /\ views = NoViews /\ last = NoCall
    /\ pc = <<>> /\ hist = <<>>
    /\ loc = [genres |-> [n \in {"g"} |-> 1], manga_genres |-> {}]
    /\ AuthIdle

NextGenres ==
    \/ \E title \in Titles, genres \in GenreInputs, selFail, insFail \in BOOLEAN :
          MangaRepositoryCreate(title, genres, selFail, insFail)
    \/ \E id \in 1..MaxGenreManga, title \in Titles, genres \in GenreInputs,
          selFail, insFail \in BOOLEAN :
          MangaRepositoryUpdate(id, title, genres, selFail, insFail)

SpecGenres == InitGenres /\ [][NextGenres]_vars

\* C36: after a manga Create or Update with the genre list G during which
\* no statement failed, GetGenresForManga of the manga returns exactly the
\* genres of G, the genres that did not exist before included.
GenresStoredAsGiven ==
    (family = "genres" /\ last.op \in {"Create", "Update"} /\ ~last.fail)
       => GetGenresForManga(loc, last.id) = {last.genres[k] : k \in DOMAIN last.genres}

(* --------------------- JWTService.RefreshTokens ------------------------ *)
\* SpecRefresh: two users log in, time passes, and RefreshTokens is called
\* with each token a client holds (or a forged one) for each user.
RefreshUserIds == {1, 2}

\* one call of RefreshTokens; the ghost keeps the arguments, the time and
\* the result
RefreshTokensCall(tok, id) ==
    LET r == RefreshTokens(jwtService, tok, userDB[id], now)
    IN /\ family = "refresh"
       /\ id \in DOMAIN userDB
       /\ last' = [op |-> "RefreshTokens", tok |-> tok, user |-> userDB[id],
                   at |-> now, res |-> r]
       /\ held' = IF r.ok THEN Keep(r.val) ELSE held
       /\ UNCHANGED <<family, storeVars, cache, views, raceVars, jwtService,
                      userDB, now, resp>>

InitRefresh ==
    /\ family = "refresh"
    /\ mangaDB = Empty /\ mangaOrder = <<>> /\ nextMangaId = 1
    /\ chapterDB = Empty /\ nextChapterId = 1
    /\ pageDB = Empty /\ nextPageId = 1
    /\ cache = Empty /\ views = NoViews /\ last = NoCall
    /\ pc = <<>> /\ loc = <<>> /\ hist = <<>>
    /\ jwtService \in {NewJWTService("k1", r, AccessExpires, RefreshExpires) :
                          r \in Secrets}
    /\ userDB = [i \in RefreshUserIds |->
                    [id |-> i, username |-> UsernameOf(i),
                     role |-> IF i = 1 THEN "admin" ELSE "user",
                     password |-> "p"]]
    /\ now = 0
    /\ held = {}
    /\ resp = NoResp

NextRefresh ==
    \/ \E id \in RefreshUserIds, password \in Passwords, dbFail \in BOOLEAN :
          Login(UsernameOf(id), password, dbFail)
    \/ \E tok \in held \cup Forged, id \in RefreshUserIds : RefreshTokensCall(tok, id)
    \/ Tick

SpecRefresh == InitRefresh /\ [][NextRefresh]_vars

\* C37: RefreshTokens(refreshToken, user) returns an error and no pair when
\* the refresh token is valid and the user id it carries differs from
\* user.ID, and it returns a pair, the one GenerateTokenPair mints for user,
\* exactly when the token is valid and carries user.ID.
RefreshTokensUserCheck ==
    (family = "refresh" /\ last.op = "RefreshTokens") =>
       LET claims == ValidateRefreshToken(jwtService, last.tok, last.at)
       IN /\ (claims.ok /\ claims.val.UserID # last.user.id)
                => ~last.res.ok /\ last.res.val = NoVal
          /\ last.res.ok <=> (claims.ok /\ claims.val.UserID = last.user.id)
          /\ last.res.ok
                => last.res.val = GenerateTokenPair(jwtService, last.user, last.at)

\* the valid refresh token of user 1 was presented for user 2 and refused
RefreshTokensUserCheckWitness ==
    /\ family = "refresh" /\ last.op = "RefreshTokens"
    /\ ValidateRefreshToken(jwtService, last.tok, last.at).ok
    /\ last.tok.UserID = 1 /\ last.user.id = 2
    /\ ~last.res.ok

(* ------------------------ view count of a chapter ---------------------- *)
\* C39: the Views field a successful chapter GetByID returns is the view
\* count of the chapter as it was before this call, the view the call
\* itself records not included, and 0 when the count could not be read; so
\* while every view is recorded and nothing is reset, the n-th successful
\* GetByID of a chapter returns Views = n - 1.
ViewsExcludeCurrentRead ==
    [][\A id \in ChapterIds, getFail, setFail, dbFail, vFail, anFail \in BOOLEAN :
          (ChapterGetByID(id, getFail, setFail, dbFail, vFail, anFail)
             /\ last'.res.ok)
             => /\ last'.res.val.views
                      = IF vFail THEN 0
                        ELSE Score(views[<<"chapter", "all_time">>], id)
                /\ ~anFail
                      => Score(views'[<<"chapter", "all_time">>], id)
                            = Score(views[<<"chapter", "all_time">>], id) + 1]_vars

\* the first read of the chapter returned 0 views and recorded one
ViewsExcludeCurrentReadWitness ==
    /\ family = "cascade"
    /\ last.op = "ChapterGetByID" /\ last.res.ok /\ ~last.anfail
    /\ last.res.val.views = 0
    /\ Score(views[<<"chapter", "all_time">>], last.id) = 1

\* the second read of the chapter returned the view of the first
SecondReadCountsFirst ==
    /\ family = "cascade"
    /\ last.op = "ChapterGetByID" /\ last.res.ok /\ last.hit
    /\ last.res.val.views = 1

(* --------------------------- panic recovery ---------------------------- *)
\* the requests one run serves
MaxServed == 3

\* next.ServeHTTP(w, r) as Recovery calls it: the chain of the route, then
\* its handler, which may panic before it has written anything
ServeHTTP(route, header, panics) ==
    LET d == Serve(Middlewares(route), NoCtx, header, FALSE)
    IN IF d.invoked /\ panics
       THEN [d EXCEPT !.status = Panicked.status, !.code = Panicked.code]
       ELSE d

\* who panicked below Recovery
PanicOf(d) ==
    IF d.code # Panicked.code THEN "none"
    ELSE IF d.invoked THEN "handler" ELSE "middleware"

\* one request through Recovery; hist keeps what each client was answered
RecoveredRequest(route, header, panics) ==
    LET below == ServeHTTP(route, header, panics)
        d == Recovery(below)
    IN /\ family = "recovery"
       /\ Len(hist) < MaxServed
       /\ resp' = [NoResp EXCEPT !.op = "Request", !.status = d.status,
                                 !.code = d.code, !.passed = d.passed,
                                 !.invoked = d.invoked]
       /\ hist' = Append(hist, [by |-> PanicOf(below), status |-> d.status,
                                code |-> d.code])
       /\ UNCHANGED <<family, storeVars, cache, views, last, pc, loc,
                      jwtService, userDB, now, held>>

InitRecovery ==
    /\ family = "recovery"
    /\ mangaDB = Empty /\ mangaOrder = <<>> /\ nextMangaId = 1
    /\ chapterDB = Empty /\ nextChapterId = 1
    /\ pageDB = Empty /\ nextPageId = 1
    /\ cache = Empty /\ views = NoViews /\ last = NoCall
    /\ pc = <<>> /\ loc = <<>> /\ hist = <<>>
    /\ jwtService = NewJWTService("k1", "k2", AccessExpires, RefreshExpires)
    /\ \E role \in Roles :
          userDB = [i \in {1} |-> [id |-> i, username |-> UsernameOf(i),
                                   role |-> role, password |-> "p"]]
    /\ now = 0
    /\ held = {GenerateAccessToken(jwtService, userDB[1], now)}
    /\ resp = NoResp

NextRecovery ==
    \E route \in Routes, header \in Headers, panics \in BOOLEAN :
        RecoveredRequest(route, header, panics)

SpecRecovery == InitRecovery /\ [][NextRecovery]_vars

====
